---- MODULE Spec2Model ----
(***************************************************************************)
(* Galaxy Sentinel: the Tier 2 investigation loop (investigate_alerts),    *)
(* its tool dispatch (_execute_tool) and the notification sink             *)
(* (send_slack_alert).                                                     *)
(*                                                                         *)
(* Texts are sequences of chunks [src, len]: a chunk is the first len      *)
(* characters of the string named src.  Concatenation is \o, a Python      *)
(* slice s[:n] is Truncate(s, n), the empty string is << >>.               *)
(***************************************************************************)
EXTENDS Integers, Sequences, FiniteSets, TLC

VARIABLES
    alerts,             \* the batch handed to investigate_alerts
    slack_webhook_url,  \* config.slack_webhook_url is set (truthy)
    pc,                 \* position of the investigation coroutine
    round_num,          \* rounds of the for loop completed so far
    requests,           \* completion requests issued (calls of llm.complete)
    messages,           \* the conversation history
    sink,               \* calls of send_slack_alert, in order
    executed,           \* calls of _execute_tool, in order
    terminal,           \* how the run left the loop
    response,           \* the last completion response received
    prompt_file,        \* system.md next to investigate.py: absent or present
    system_prompt,      \* investigate_alerts: the prompt it loaded
    request,            \* the arguments of the last call of llm.complete
    t_pc, t_name, t_input, t_env, t_result,  \* one isolated _execute_tool call
    c_pc,               \* position of run_all_checks
    c_index,            \* index in ALL_CHECKS of the next check to run
    all_alerts,         \* run_all_checks: the alerts gathered so far
    c_outcomes,         \* what each check that ran did, in order
    anthropic_api_key,  \* config.anthropic_api_key is set
    openai_api_key,     \* config.openai_api_key is set
    ollama_url,         \* config.ollama_url is set
    llm_provider,       \* config.llm_provider
    probe_endpoints,    \* len(config.probe_endpoints)
    k_pc,               \* position of run_tier0
    k_index,            \* run_tier0: index of the next alert to deliver
    k_investigations,   \* calls of investigate_alerts made by run_tier0
    s_pc,               \* position of main
    shutdown,           \* the shutdown event is set
    signal_at,          \* where main was when the signal arrived, or "none"
    elapsed,            \* the check interval has run out during the wait
    now,                \* main: datetime.now() as read in the latest tick
    last_digest_date,   \* main: a day, or -1 for None
    digest_attempts,    \* main: the failure counter
    failsOn,            \* per day, the digest attempts that failed
    okOn,               \* per day, the digest attempts that succeeded
    last_outcome,       \* what the digest step of the latest tick did
    late_tick,          \* a loop iteration began with the shutdown flag set
    exit_status,        \* exit status of the process, -1 while it runs
    d_pc,               \* position of run_tier1_digest and generate_digest
    d_outcomes,         \* what the collaborator of each digest fact did
    d_lines,            \* _collect_24h_summary: the lines of the summary
    d_requests,         \* the completion requests generate_digest has made
    d_response,         \* generate_digest: response["content"]
    l_pc,               \* position of LLMProvider.complete
    l_tools,            \* complete: tool descriptors were passed
    l_backend,          \* what the backend does with the request
    l_posts,            \* requests complete has handed to its backend client
    l_out,              \* what complete returned
    n_pc,               \* position of one send_slack_alert call
    n_args,             \* send_slack_alert: severity, title and message
    n_post,             \* what the webhook POST does if it is reached
    n_out               \* send_slack_alert: raised, returned value, POSTs made

agentVars == <<alerts, slack_webhook_url, pc, round_num, requests, messages,
               sink, executed, terminal, response, prompt_file, system_prompt,
               request>>
toolVars == <<t_pc, t_name, t_input, t_env, t_result>>
checkVars == <<c_pc, c_index, all_alerts, c_outcomes>>
configVars == <<anthropic_api_key, openai_api_key, ollama_url, llm_provider,
                probe_endpoints>>
tickVars == <<k_pc, k_index, k_investigations>>
schedVars == <<s_pc, shutdown, signal_at, elapsed, now, last_digest_date,
               digest_attempts, failsOn, okOn, last_outcome, late_tick,
               exit_status>>
digestVars == <<d_pc, d_outcomes, d_lines, d_requests, d_response>>
llmVars == <<l_pc, l_tools, l_backend, l_posts, l_out>>
sinkVars == <<n_pc, n_args, n_post, n_out>>
moreVars == <<digestVars, llmVars, sinkVars>>
restVars == <<checkVars, configVars, tickVars, schedVars, moreVars>>
vars == <<agentVars, toolVars, restVars>>

----------------------------------------------------------------------------
(* Bounds of the model *)

MaxAlerts == 2
ShortLen == 35
LongLen == 3500

(* Program constants *)

MAX_TOOL_ROUNDS == 5
ResultMessageLimit == 3000
ToolResultLimit == 2000

----------------------------------------------------------------------------
(* Texts *)

Lit(s, n) == IF n = 0 THEN << >> ELSE << [src |-> s, len |-> n] >>

RECURSIVE TextLen(_)
TextLen(t) == IF t = << >> THEN 0 ELSE Head(t).len + TextLen(Tail(t))

RECURSIVE Truncate(_, _)
Truncate(t, n) ==
    IF t = << >> \/ n <= 0 THEN << >>
    ELSE IF Head(t).len <= n
         THEN << Head(t) >> \o Truncate(Tail(t), n - Head(t).len)
         ELSE << [Head(t) EXCEPT !.len = n] >>

\* sub occurs verbatim (as a contiguous run of whole chunks) in t
Contains(t, sub) ==
    \E i \in 0..(Len(t) - Len(sub)) : SubSeq(t, i + 1, i + Len(sub)) = sub

RECURSIVE Join(_, _)
Join(sep, ts) ==
    IF ts = << >> THEN << >>
    ELSE IF Len(ts) = 1 THEN Head(ts)
    ELSE Head(ts) \o sep \o Join(sep, Tail(ts))

Upper(s) ==
    CASE s = "critical" -> "CRITICAL"
      [] s = "warning" -> "WARNING"
      [] s = "info" -> "INFO"
      [] s = "resolved" -> "RESOLVED"
      [] OTHER -> s

----------------------------------------------------------------------------
(* Notification sink *)

\* One call of send_slack_alert.  post is what the webhook POST does if it is
\* reached.  status: "dropped" (no webhook configured, returns False),
\* "sent" (returns True), "failed" (POST failed, returns False), "raised"
\* (severity is not a string: severity.upper() raises outside the try).
SendSlackAlert(webhook, severity, title, message, post) ==
    LET status == IF ~webhook THEN "dropped"
                  ELSE IF severity = "NOT_A_STRING" THEN "raised"
                  ELSE IF post = "ok" THEN "sent" ELSE "failed"
    IN [raised |-> status = "raised",
        ret |-> status = "sent",
        call |-> [severity |-> severity, title |-> title,
                  message |-> message, status |-> status]]

----------------------------------------------------------------------------
(* Tool dispatch *)

ToolNames == {"query_metrics", "query_logs", "get_cluster_status", "send_alert"}

INVESTIGATION_TOOLS == ToolNames

AlertSentText == Lit("Alert sent to Slack successfully.", 33)

UnknownToolText(name) == Lit("Unknown tool: ", 14) \o Lit(name, 11)

ToolErrorText(e) == Lit("Tool error: ", 12) \o e

KeyError(k) == Lit(k, 8)

\* What the collaborator of a read-only tool returns, formatted for the model.
FormatInstantResults(out) ==
    CASE out = "ok_empty" -> Lit("no data", 7)
      [] out = "ok_short" -> Lit("metric rows", ShortLen)
      [] OTHER -> Lit("metric rows", LongLen)

FormatLogResults(out) ==
    CASE out = "ok_empty" -> Lit("no log entries found", 20)
      [] out = "ok_short" -> Lit("log lines", ShortLen)
      [] OTHER -> Lit("log lines", LongLen)

FormatClusterStatus(out) ==
    CASE out = "ok_long" -> Lit("cluster status", LongLen)
      [] OTHER -> Lit("cluster status", ShortLen)

\* What the world does when a tool runs: collab is what the tool's read-only
\* collaborator does if it is called, post what the Slack webhook does if it
\* is posted to.
CollabOutcomes == {"ok_empty", "ok_short", "ok_long", "error", "timeout"}
PostOutcomes == {"ok", "fail"}
Env(c, p) == [collab |-> c, post |-> p]

CollaboratorRaises(env) == env.collab \in {"error", "timeout"}

CollaboratorError(env) == Lit(env.collab, 20)

\* The body of the try block of _execute_tool: raised tells whether an
\* exception reached the except clause, collab lists the collaborators
\* that were called, notifs the calls of the sink.
ExecuteToolBody(webhook, name, input, env) ==
    LET Ok(text, collab) ==
            [raised |-> FALSE, text |-> text, exc |-> << >>,
             collab |-> collab, notifs |-> << >>]
        Exc(e, collab) ==
            [raised |-> TRUE, text |-> << >>, exc |-> e,
             collab |-> collab, notifs |-> << >>]
    IN
    CASE name = "query_metrics" ->
            IF "promql" \notin DOMAIN input THEN Exc(KeyError("promql"), << >>)
            ELSE IF CollaboratorRaises(env)
                 THEN Exc(CollaboratorError(env), << "metrics" >>)
                 ELSE Ok(FormatInstantResults(env.collab), << "metrics" >>)
      [] name = "query_logs" ->
            IF "logql" \notin DOMAIN input THEN Exc(KeyError("logql"), << >>)
            ELSE IF CollaboratorRaises(env)
                 THEN Exc(CollaboratorError(env), << "logs" >>)
                 ELSE Ok(FormatLogResults(env.collab), << "logs" >>)
      [] name = "get_cluster_status" ->
            IF CollaboratorRaises(env)
            THEN Exc(CollaboratorError(env), << "cluster" >>)
            ELSE Ok(FormatClusterStatus(env.collab), << "cluster" >>)
      [] name = "send_alert" ->
            IF "severity" \notin DOMAIN input THEN Exc(KeyError("severity"), << >>)
            ELSE IF "title" \notin DOMAIN input THEN Exc(KeyError("title"), << >>)
            ELSE IF "message" \notin DOMAIN input THEN Exc(KeyError("message"), << >>)
            ELSE LET s == SendSlackAlert(webhook, input["severity"], input["title"],
                                         Lit(input["message"], ShortLen),
                                         env.post)
                 IN IF s.raised
                    THEN [Exc(Lit("AttributeError", 40), << >>)
                            EXCEPT !.notifs = << s.call >>]
                    ELSE [Ok(AlertSentText, << >>) EXCEPT !.notifs = << s.call >>]
      [] OTHER -> Ok(UnknownToolText(name), << >>)

\* _execute_tool: the try block, with any exception turned into text.
ExecuteTool(webhook, name, input, env) ==
    LET b == ExecuteToolBody(webhook, name, input, env)
    IN [raised |-> FALSE,
        text |-> IF b.raised THEN ToolErrorText(b.exc) ELSE b.text,
        collab |-> b.collab,
        notifs |-> b.notifs]

----------------------------------------------------------------------------
(* The investigation: inputs *)

CpuAlert ==
    [check_name |-> "CPU Load Critical", severity |-> "critical",
     message |-> Lit("mercury: 15m load average 9.0 (threshold: 8.0)", 46)]

\* the message carries label values of the metrics backend, of any length
StuckPodAlert ==
    [check_name |-> "Stuck Pod", severity |-> "warning",
     message |-> Lit("ns/pod: stuck in Pending", LongLen)]

AlertPool == {CpuAlert, StuckPodAlert}

AlertBatches ==
    UNION { [1..n -> AlertPool] : n \in 1..MaxAlerts }

\* f"[{a.severity.upper()}] {a.check_name}: {a.message}"
AlertLine(a) ==
    Lit(Upper(a.severity), 11) \o Lit(a.check_name, 20) \o a.message

AlertText(batch) ==
    Join(Lit("\n", 1), [i \in 1..Len(batch) |-> AlertLine(batch[i])])

InitialMessages(batch) ==
    << [role |-> "user",
        content |-> Lit("The following alerts were just detected", 68)
                    \o AlertText(batch)
                    \o Lit("Investigate the root cause", 131)] >>

\* Tool calls a provider may put in a response (id is set per response).
QueryMetricsCall == [name |-> "query_metrics", input |-> ("promql" :> "up")]
QueryLogsNoArgs == [name |-> "query_logs", input |-> << >>]
ClusterStatusCall == [name |-> "get_cluster_status", input |-> << >>]
UnknownCall == [name |-> "restart_pod", input |-> << >>]
SendAlertCall ==
    [name |-> "send_alert",
     input |-> [severity |-> "critical", title |-> "Root cause found",
                message |-> "node mercury overloaded"]]
SendAlertNoTitle ==
    [name |-> "send_alert",
     input |-> [severity |-> "critical", message |-> "node mercury overloaded"]]

ShortText == Lit("root cause: node mercury overloaded", ShortLen)
LongText == Lit("a long analysis", LongLen)

Response(content, calls) == [content |-> content, tool_calls |-> calls]

TextResponses == { Response(c, << >>) : c \in {<< >>, ShortText, LongText} }

ToolResponses ==
    { Response(<< >>, << QueryMetricsCall >>),
      Response(<< >>, << UnknownCall >>),
      Response(ShortText, << QueryLogsNoArgs, ClusterStatusCall >>),
      Response(<< >>, << SendAlertCall >>),
      Response(<< >>, << SendAlertNoTitle >>),
      Response(ShortText, << QueryMetricsCall, SendAlertCall, UnknownCall >>) }

\* What the collaborator behind a call may do in the investigation runs.
CallEnvs(call) ==
    CASE call.name = "query_metrics" -> {Env("ok_short", "ok"), Env("error", "ok")}
      [] call.name = "get_cluster_status" -> {Env("ok_long", "ok"), Env("timeout", "ok")}
      [] call.name = "send_alert" /\ DOMAIN call.input = {"severity", "title", "message"}
            -> {Env("ok_short", "ok"), Env("ok_short", "fail")}
      [] OTHER -> {Env("ok_short", "ok")}

EnvChoices(calls) ==
    { e \in [1..Len(calls) -> [collab : CollabOutcomes, post : PostOutcomes]] :
        \A i \in 1..Len(calls) : e[i] \in CallEnvs(calls[i]) }

\* The provider gives every call of a response an id (unique in the run).
WithIds(calls, req) ==
    [i \in 1..Len(calls) |->
        [id |-> 10 * req + i, name |-> calls[i].name, input |-> calls[i].input]]

----------------------------------------------------------------------------
(* The investigation: investigate_alerts *)

RECURSIVE Flatten(_)
Flatten(ss) == IF ss = << >> THEN << >> ELSE Head(ss) \o Flatten(Tail(ss))

\* Mutants of the loop bound: one round too many, one round too few.
LoopContinues_OneMore(r) == r < MAX_TOOL_ROUNDS + 1

LoopContinues_OneLess(r) == r < MAX_TOOL_ROUNDS - 1

\* for round_num in range(MAX_TOOL_ROUNDS)
LoopContinues(r) == r < MAX_TOOL_ROUNDS

\* Mutant: the emptiness test is dropped.
Truthy_Always(content) == TRUE

\* if response["content"]: (a non-empty string is truthy)
Truthy(content) == content # << >>

\* Mutant: the final text is passed on whole.
ResultMessage_Untruncated(content) == content

\* response["content"][:3000]
ResultMessage(content) == Truncate(content, ResultMessageLimit)

\* Mutant: the response is recorded as a turn of the user.
AssistantTurn_AsUser(resp) ==
    [role |-> "user", content |-> << [type |-> "text", text |-> resp.content] >>]

\* messages.append({"role": "assistant", "content": assistant_content})
AssistantTurn(resp) ==
    [role |-> "assistant",
     content |->
        (IF Truthy(resp.content)
         THEN << [type |-> "text", text |-> resp.content] >> ELSE << >>)
        \o [i \in 1..Len(resp.tool_calls) |->
              [type |-> "tool_use", id |-> resp.tool_calls[i].id,
               name |-> resp.tool_calls[i].name,
               input |-> resp.tool_calls[i].input]]]

ToolResultBlock(tc, result) ==
    [type |-> "tool_result", tool_use_id |-> tc.id,
     content |-> Truncate(result.text, ToolResultLimit)]

\* Mutant: a call of a tool that is not known is reported to the sink.
Dispatch_ReportsUnknown(calls, envs) ==
    [i \in 1..Len(calls) |->
        LET r == ExecuteTool(slack_webhook_url, calls[i].name, calls[i].input,
                             envs[i])
        IN IF calls[i].name \in ToolNames THEN r
           ELSE [r EXCEPT !.notifs =
                    << SendSlackAlert(slack_webhook_url, "warning",
                                      "Unknown tool", r.text, envs[i].post).call >>]]

\* the results of dispatching every call of the response, in order
Dispatch(calls, envs) ==
    [i \in 1..Len(calls) |->
        ExecuteTool(slack_webhook_url, calls[i].name, calls[i].input, envs[i])]

\* Mutant: only the first call of the round is answered.
ToolResultTurn_FirstOnly(calls, results) ==
    [role |-> "user",
     content |-> << ToolResultBlock(calls[1], results[1]) >>]

ToolResultTurn(calls, results) ==
    [role |-> "user",
     content |-> [i \in 1..Len(calls) |-> ToolResultBlock(calls[i], results[i])]]

\* Mutants: only the first call is looked at; any name that is not a
\* read-only tool counts.
CalledSendAlert_FirstOnly(calls) == calls[1].name = "send_alert"

\* Mutant: the loop is not left after send_alert.
CalledSendAlert_Never(calls) == FALSE

CalledSendAlert_NotReadOnly(calls) ==
    \E i \in 1..Len(calls) :
        calls[i].name \notin {"query_metrics", "query_logs", "get_cluster_status"}

\* any(tc["name"] == "send_alert" for tc in response["tool_calls"])
CalledSendAlert(calls) ==
    \E i \in 1..Len(calls) : calls[i].name = "send_alert"

TimeoutMessage(batch) ==
    Lit("AI investigation for the following alerts hit the ", 50)
    \o Lit(ToString(MAX_TOOL_ROUNDS), 1)
    \o Lit("-round limit:\n", 14)
    \o AlertText(batch)

\* _load_system_prompt: the text of system.md if the file exists, else the
\* built-in prompt
DefaultSystemPrompt == Lit("You are Galaxy Sentinel, a monitoring AI", 196)

SystemFileText == Lit("system.md", LongLen)

PromptFiles == {"absent", "present"}

LoadSystemPrompt(file) ==
    IF file = "present" THEN SystemFileText ELSE DefaultSystemPrompt

InvestigationModel == "claude-haiku-4-5-20251001"

NoRequest ==
    [system |-> << >>, messages |-> << >>, tools |-> {}, max_tokens |-> 0,
     model |-> "none"]

\* Mutant: only the newest turn is sent.
CompletionRequest_LastTurnOnly(system, history) ==
    [system |-> system, messages |-> << history[Len(history)] >>,
     tools |-> INVESTIGATION_TOOLS, max_tokens |-> 2000,
     model |-> InvestigationModel]

\* llm.complete(system=system_prompt, messages=messages, max_tokens=2000,
\*              tools=INVESTIGATION_TOOLS, model=...)
CompletionRequest(system, history) ==
    [system |-> system, messages |-> history, tools |-> INVESTIGATION_TOOLS,
     max_tokens |-> 2000, model |-> InvestigationModel]

\* llm.complete raises: nothing in investigate_alerts catches it
CompleteRaises ==
    /\ pc = "complete"
    /\ request' = CompletionRequest(system_prompt, messages)
    /\ UNCHANGED <<prompt_file, system_prompt>>
    /\ requests' = requests + 1
    /\ pc' = "raised"
    /\ terminal' = "ProviderError"
    /\ UNCHANGED <<alerts, slack_webhook_url, round_num, messages, sink, executed,
                   response>>
    /\ UNCHANGED <<toolVars, restVars>>

\* a response without tool calls ends the run
RoundTextOnly(resp, post) ==
    /\ pc = "complete"
    /\ request' = CompletionRequest(system_prompt, messages)
    /\ UNCHANGED <<prompt_file, system_prompt>>
    /\ resp.tool_calls = << >>
    /\ requests' = requests + 1
    /\ response' = resp
    /\ sink' = IF Truthy(resp.content)
               THEN Append(sink, SendSlackAlert(slack_webhook_url, "warning",
                                    "Investigation Result",
                                    ResultMessage(resp.content), post).call)
               ELSE sink
    /\ pc' = "returned"
    /\ terminal' = "Concluded-by-text"
    /\ UNCHANGED <<alerts, slack_webhook_url, round_num, messages, executed>>
    /\ UNCHANGED <<toolVars, restVars>>

\* a response with tool calls: record it, dispatch every call, record the
\* results, then leave the loop if send_alert was among the calls
RoundToolCalls(resp, envs) ==
    /\ pc = "complete"
    /\ request' = CompletionRequest(system_prompt, messages)
    /\ UNCHANGED <<prompt_file, system_prompt>>
    /\ resp.tool_calls # << >>
    /\ requests' = requests + 1
    /\ LET calls == WithIds(resp.tool_calls, requests + 1)
           r == Response(resp.content, calls)
           results == Dispatch(calls, envs)
       IN /\ response' = r
          /\ messages' = messages \o << AssistantTurn(r), ToolResultTurn(calls, results) >>
          /\ sink' = sink \o Flatten([i \in 1..Len(calls) |-> results[i].notifs])
          /\ executed' = executed \o
                [i \in 1..Len(calls) |->
                    [round |-> round_num, id |-> calls[i].id, name |-> calls[i].name,
                     collab |-> results[i].collab,
                     notified |-> Len(results[i].notifs)]]
          /\ IF CalledSendAlert(calls)
             THEN /\ pc' = "returned"
                  /\ terminal' = "Concluded-by-alert"
                  /\ round_num' = round_num
             ELSE /\ round_num' = round_num + 1
                  /\ pc' = IF LoopContinues(round_num + 1) THEN "complete" ELSE "else"
                  /\ terminal' = terminal
    /\ UNCHANGED <<alerts, slack_webhook_url>>
    /\ UNCHANGED <<toolVars, restVars>>

\* the else clause of the for loop: the loop ran out of rounds
Timeout(post) ==
    /\ pc = "else"
    /\ sink' = Append(sink, SendSlackAlert(slack_webhook_url, "warning",
                                "Investigation Timeout",
                                TimeoutMessage(alerts), post).call)
    /\ pc' = "returned"
    /\ terminal' = "Timed-out"
    /\ UNCHANGED <<alerts, slack_webhook_url, round_num, requests, messages, executed,
                   response, prompt_file, system_prompt, request>>
    /\ UNCHANGED <<toolVars, restVars>>

\* main: except Exception around run_tier0 logs and carries on with the tick
Tier0Catches ==
    /\ pc = "raised"
    /\ pc' = "caught"
    /\ UNCHANGED <<alerts, slack_webhook_url, round_num, requests, messages,
                   sink, executed, terminal, response, prompt_file,
                   system_prompt, request>>
    /\ UNCHANGED <<toolVars, restVars>>

NoResponse == Response(<< >>, << >>)

NoTool == [pc |-> "off", name |-> "none", input |-> << >>,
           env |-> Env("ok_short", "ok"), result |-> << >>]

\* the parts of the program a specification leaves out stay as they are here
ChecksIdle ==
    /\ c_pc = "off"
    /\ c_index = 1
    /\ all_alerts = << >>
    /\ c_outcomes = << >>

\* len(config.probe_endpoints), at its default
NumProbeEndpoints == 2

ConfigDefault ==
    /\ anthropic_api_key = TRUE
    /\ openai_api_key = FALSE
    /\ ollama_url = FALSE
    /\ llm_provider = "anthropic"
    /\ probe_endpoints = NumProbeEndpoints

TickIdle ==
    /\ k_pc = "off"
    /\ k_index = 1
    /\ k_investigations = 0

SchedIdle ==
    /\ s_pc = "off"
    /\ shutdown = FALSE
    /\ signal_at = "none"
    /\ elapsed = FALSE
    /\ now = [day |-> -1, hour |-> -1]
    /\ last_digest_date = -1
    /\ digest_attempts = 0
    /\ failsOn = << >>
    /\ okOn = << >>
    /\ last_outcome = "none"
    /\ late_tick = FALSE
    /\ exit_status = -1

DigestIdle ==
    /\ d_pc = "off"
    /\ d_outcomes = << >>
    /\ d_lines = << >>
    /\ d_requests = << >>
    /\ d_response = << >>

LlmIdle ==
    /\ l_pc = "off"
    /\ l_tools = FALSE
    /\ l_backend = "none"
    /\ l_posts = 0
    /\ l_out = << >>

SinkIdle ==
    /\ n_pc = "off"
    /\ n_args = << >>
    /\ n_post = "ok"
    /\ n_out = << >>

MoreIdle == DigestIdle /\ LlmIdle /\ SinkIdle

ToolIdle ==
    /\ t_pc = NoTool.pc
    /\ t_name = NoTool.name
    /\ t_input = NoTool.input
    /\ t_env = NoTool.env
    /\ t_result = NoTool.result

AgentIdle ==
    /\ alerts = << >>
    /\ pc = "off"
    /\ round_num = 0
    /\ requests = 0
    /\ messages = << >>
    /\ sink = << >>
    /\ executed = << >>
    /\ terminal = "none"
    /\ response = NoResponse
    /\ prompt_file = "absent"
    /\ system_prompt = << >>
    /\ request = NoRequest

Init ==
    /\ ChecksIdle /\ ConfigDefault /\ TickIdle /\ SchedIdle /\ MoreIdle
    /\ alerts \in AlertBatches
    /\ slack_webhook_url \in BOOLEAN
    /\ pc = "complete"
    /\ round_num = 0
    /\ requests = 0
    /\ messages = InitialMessages(alerts)
    /\ sink = << >>
    /\ executed = << >>
    /\ terminal = "none"
    /\ response = NoResponse
    /\ prompt_file = "absent"
    /\ system_prompt = LoadSystemPrompt(prompt_file)
    /\ request = NoRequest
    /\ t_pc = NoTool.pc
    /\ t_name = NoTool.name
    /\ t_input = NoTool.input
    /\ t_env = NoTool.env
    /\ t_result = NoTool.result

Next ==
    \/ CompleteRaises
    \/ \E resp \in TextResponses, post \in {"ok", "fail"} : RoundTextOnly(resp, post)
    \/ \E resp \in ToolResponses :
          \E envs \in EnvChoices(resp.tool_calls) : RoundToolCalls(resp, envs)
    \/ \E post \in {"ok", "fail"} : Timeout(post)
    \/ Tier0Catches

Spec == Init /\ [][Next]_vars

----------------------------------------------------------------------------
(* Tool dispatch on its own: one call of _execute_tool for any tool name,  *)
(* any argument mapping and any collaborator behaviour.                    *)

ArgKeys == {"promql", "logql", "since", "severity", "title", "message"}
ArgValues == {"text", "NOT_A_STRING"}
ToolInputs == UNION { [K -> ArgValues] : K \in SUBSET ArgKeys }

ToolInit ==
    /\ ChecksIdle /\ ConfigDefault /\ TickIdle /\ SchedIdle /\ MoreIdle
    /\ alerts = << >>
    /\ slack_webhook_url \in BOOLEAN
    /\ pc = "off"
    /\ round_num = 0
    /\ requests = 0
    /\ messages = << >>
    /\ sink = << >>
    /\ executed = << >>
    /\ terminal = "none"
    /\ response = NoResponse
    /\ prompt_file = "absent"
    /\ system_prompt = << >>
    /\ request = NoRequest
    /\ t_pc = "call"
    /\ t_name \in ToolNames \cup {UnknownCall.name}
    /\ t_input \in ToolInputs
    /\ t_env \in [collab : CollabOutcomes, post : PostOutcomes]
    /\ t_result = << >>

InvokeTool ==
    /\ t_pc = "call"
    /\ t_result' = ExecuteTool(slack_webhook_url, t_name, t_input, t_env)
    /\ t_pc' = "done"
    /\ UNCHANGED <<t_name, t_input, t_env>>
    /\ UNCHANGED <<agentVars, restVars>>

ToolNext == InvokeTool

ToolSpec == ToolInit /\ [][ToolNext]_vars

----------------------------------------------------------------------------
(* Properties *)

\* number of tool rounds recorded in the history
Rounds == (Len(messages) - 1) \div 2

ToolUses(turn) == SelectSeq(turn.content, LAMBDA b : b.type = "tool_use")

Ids(calls) == [i \in 1..Len(calls) |-> calls[i].id]

ResultIds(blocks) == [i \in 1..Len(blocks) |-> blocks[i].tool_use_id]

HasSendAlert(calls) == \E i \in 1..Len(calls) : calls[i].name = "send_alert"

HasUnknown(calls) == \E i \in 1..Len(calls) : calls[i].name \notin ToolNames

TimeoutCalls == { i \in DOMAIN sink : sink[i].title = "Investigation Timeout" }

ResultCalls == { i \in DOMAIN sink : sink[i].title = "Investigation Result" }

\* C1: whatever the provider does, a run issues at most MAX_TOOL_ROUNDS
\* completion requests and then ends: every step of the run raises a measure
\* that is bounded, and the run is never stuck before it has ended (returned,
\* or the provider's exception has left it and was caught by the tick).
Progress ==
    2 * requests + (CASE pc = "returned" -> 1
                      [] pc = "raised" -> 1
                      [] pc = "caught" -> 2
                      [] OTHER -> 0)

C1_BoundedRequests ==
    /\ [](requests <= MAX_TOOL_ROUNDS)
    /\ [](Progress <= 2 * MAX_TOOL_ROUNDS + 2)
    /\ [][Progress' > Progress]_vars
    /\ [](\/ pc \in {"returned", "caught"}
          \/ ENABLED (\E post \in {"ok", "fail"} :
                         RoundTextOnly(Response(<< >>, << >>), post))
          \/ ENABLED Timeout("ok")
          \/ ENABLED Tier0Catches)

C1_Witness ==
    /\ requests = MAX_TOOL_ROUNDS
    /\ Rounds = MAX_TOOL_ROUNDS
    /\ pc = "returned"

\* C2: the Timeout notification is sent exactly when all MAX_TOOL_ROUNDS
\* rounds carried tool calls, none of them send_alert: only after exactly
\* MAX_TOOL_ROUNDS requests, once, with severity warning, naming the round
\* limit and holding every alert's text whole.
AllRoundsUsedTools ==
    /\ Rounds = MAX_TOOL_ROUNDS
    /\ \A i \in DOMAIN executed : executed[i].name # "send_alert"
    /\ \A r \in 0..(MAX_TOOL_ROUNDS - 1) : \E i \in DOMAIN executed : executed[i].round = r

C2_TimeoutExactlyAtLimit ==
    /\ TimeoutCalls # {} =>
          /\ AllRoundsUsedTools
          /\ requests = MAX_TOOL_ROUNDS
          /\ Cardinality(TimeoutCalls) = 1
          /\ Len(sink) = 1
          /\ \A i \in TimeoutCalls :
                /\ sink[i].severity = "warning"
                /\ Contains(sink[i].message,
                            Lit(ToString(MAX_TOOL_ROUNDS), 1) \o Lit("-round limit:\n", 14))
                /\ \A k \in DOMAIN alerts : Contains(sink[i].message, alerts[k].message)
    /\ (pc = "returned" /\ AllRoundsUsedTools) => TimeoutCalls # {}
    /\ requests < MAX_TOOL_ROUNDS => TimeoutCalls = {}

C2_Witness ==
    /\ terminal = "Timed-out"
    /\ Len(alerts) = 2
    /\ alerts[1] # alerts[2]
    /\ TimeoutCalls # {}

\* C3: the user turn that follows the assistant turn of a round holds exactly
\* one tool result per tool call of that round, in order, each with the id of
\* its call, whatever the tools did.
C3_ResultsMatchCalls ==
    /\ \A r \in 1..Rounds :
          LET uses == ToolUses(messages[2 * r])
              res == messages[2 * r + 1].content
          IN /\ messages[2 * r].role = "assistant"
             /\ messages[2 * r + 1].role = "user"
             /\ uses # << >>
             /\ Len(res) = Len(uses)
             /\ \A i \in 1..Len(res) : res[i].type = "tool_result"
             /\ ResultIds(res) = Ids(uses)
    /\ (response.tool_calls # << >>) =>
          ResultIds(messages[Len(messages)].content) = Ids(response.tool_calls)

C3_Witness ==
    /\ Rounds >= 1
    /\ requests = 2
    /\ Len(ToolUses(messages[2])) = 2
    /\ \E i \in 1..2 : Contains(messages[3].content[i].content, Lit("Tool error: ", 12))

\* C4: when the first response without tool calls comes in round k with a
\* non-empty text T, the run has issued exactly k requests and has sent
\* exactly one notification: warning, "Investigation Result", T cut to
\* ResultMessageLimit.
C4_TextConclusion ==
    (terminal = "Concluded-by-text" /\ response.content # << >>) =>
        /\ pc = "returned"
        /\ requests = Rounds + 1
        /\ Len(sink) = 1
        /\ sink[1].severity = "warning"
        /\ sink[1].title = "Investigation Result"
        /\ sink[1].message = Truncate(response.content, ResultMessageLimit)
        /\ TextLen(sink[1].message) <= ResultMessageLimit

C4_Witness ==
    /\ terminal = "Concluded-by-text"
    /\ requests = 2
    /\ Len(executed) = 1
    /\ executed[1].name = "query_metrics"
    /\ Len(sink) = 1
    /\ sink[1].message = ShortText

C4_WitnessTruncated ==
    /\ terminal = "Concluded-by-text"
    /\ response.content = LongText
    /\ Len(sink) = 1

\* C5: a response with no tool calls and an empty text sends nothing and
\* ends the run: no further request, no Timeout notification.
C5_EmptyTextSilent ==
    (terminal = "Concluded-by-text" /\ response.content = << >>) =>
        /\ sink = << >>
        /\ pc = "returned"
        /\ requests = Rounds + 1

C5_Witness ==
    /\ terminal = "Concluded-by-text"
    /\ response.content = << >>
    /\ requests = 3

\* C6: a round with a send_alert call dispatches all its calls, records the
\* assistant turn and the tool-result turn, and ends the run: no further
\* request, no Result or Timeout notification.
C6_AlertRoundCompletes ==
    HasSendAlert(response.tool_calls) =>
        LET n == Len(response.tool_calls)
            m == Len(messages)
            e == Len(executed)
        IN /\ terminal = "Concluded-by-alert"
           /\ pc = "returned"
           /\ requests = Rounds
           /\ messages[m - 1].role = "assistant"
           /\ Ids(ToolUses(messages[m - 1])) = Ids(response.tool_calls)
           /\ messages[m].role = "user"
           /\ ResultIds(messages[m].content) = Ids(response.tool_calls)
           /\ e >= n
           /\ \A i \in 1..n :
                 /\ executed[e - n + i].id = response.tool_calls[i].id
                 /\ executed[e - n + i].name = response.tool_calls[i].name
                 /\ executed[e - n + i].round = requests - 1
           /\ TimeoutCalls = {}
           /\ ResultCalls = {}

C6_Witness ==
    /\ terminal = "Concluded-by-alert"
    /\ Len(response.tool_calls) = 3
    /\ response.tool_calls[2].name = "send_alert"
    /\ response.tool_calls[3].name \notin ToolNames
    /\ requests = 2

\* C7: a run that ends because a round held a send_alert call has invoked
\* the notification sink during that round.
C7_AlertExitNotified ==
    terminal = "Concluded-by-alert" =>
        \E i \in DOMAIN executed :
            /\ executed[i].round = requests - 1
            /\ executed[i].notified >= 1

\* C8: _execute_tool never raises, and when the execution failed its text
\* is non-empty and is none of the texts the tool returns on success.
FullInput == [k \in ArgKeys |-> "text"]

SuccessTexts(name) ==
    IF name \notin ToolNames THEN {}
    ELSE { ExecuteTool(TRUE, name, FullInput, env).text :
             env \in { v \in [collab : CollabOutcomes, post : PostOutcomes] :
                         ~CollaboratorRaises(v) /\ v.post = "ok" } }

ExecutionFailed ==
    CASE t_name = "query_metrics" ->
            "promql" \notin DOMAIN t_input \/ CollaboratorRaises(t_env)
      [] t_name = "query_logs" ->
            "logql" \notin DOMAIN t_input \/ CollaboratorRaises(t_env)
      [] t_name = "get_cluster_status" -> CollaboratorRaises(t_env)
      [] t_name = "send_alert" ->
            \/ ~({"severity", "title", "message"} \subseteq DOMAIN t_input)
            \/ t_input["severity"] = "NOT_A_STRING" /\ slack_webhook_url
            \/ slack_webhook_url /\ t_env.post = "fail"
      [] OTHER -> TRUE

C8_FailureDistinguishable ==
    t_pc = "done" =>
        /\ ~t_result.raised
        /\ ExecutionFailed =>
              /\ t_result.text # << >>
              /\ t_result.text \notin SuccessTexts(t_name)

\* C9: a call of a tool outside the fixed set calls no collaborator and no
\* sink, gets a result that names the tool, and does not end the run: after
\* a round holding such a call and no send_alert the loop goes on to the
\* next request unless the round limit is reached.
C9_UnknownToolContinues ==
    /\ \A i \in DOMAIN executed :
          executed[i].name \notin ToolNames =>
              /\ executed[i].collab = << >>
              /\ executed[i].notified = 0
              /\ \E b \in { messages[2 * executed[i].round + 3].content[k] :
                              k \in DOMAIN messages[2 * executed[i].round + 3].content } :
                    /\ b.tool_use_id = executed[i].id
                    /\ b.content = Lit("Unknown tool: ", 14) \o Lit(executed[i].name, 11)
    /\ (HasUnknown(response.tool_calls) /\ ~HasSendAlert(response.tool_calls)) =>
          /\ terminal # "Concluded-by-alert"
          /\ \/ pc = "complete" /\ requests = Rounds /\ round_num < MAX_TOOL_ROUNDS
             \/ requests = Rounds + 1
             \/ round_num = MAX_TOOL_ROUNDS /\ requests = MAX_TOOL_ROUNDS

C9_Witness ==
    /\ HasUnknown(response.tool_calls)
    /\ pc = "complete"
    /\ requests = 2
    /\ \E i \in DOMAIN executed : executed[i].name \notin ToolNames /\ executed[i].round = 1

\* C10: when a completion request fails, the run ends with a Timeout-style
\* warning notification and no exception leaves investigate_alerts.
C10_ProviderFailureReported ==
    terminal = "ProviderError" =>
        /\ pc \notin {"raised", "caught"}
        /\ \E i \in DOMAIN sink :
              sink[i].severity = "warning" /\ sink[i].title = "Investigation Timeout"

\* ---------------------------------------------------------------------------
\* AlertAggregator: run_all_checks (src/agents/sentinel/checks.py)
\* ---------------------------------------------------------------------------

\* how many of the declared checks a run goes through
NumChecks == 4
\* how many alerts one check returns at most
MaxAlertsPerCheck == 2

ALL_CHECKS ==
    << "check_node_ready", "check_cpu_load", "check_memory", "check_disk",
       "check_crashlooping", "check_stuck_pods", "check_endpoints",
       "check_internal_health", "check_dns_resolution", "check_oom_kills",
       "check_flux_errors", "check_db_fatal" >>

Checks == SubSeq(ALL_CHECKS, 1, NumChecks)

\* f"Check Error: {check_fn.__name__}"
CheckErrorName(fn) ==
    CASE fn = "check_node_ready" -> "Check Error: check_node_ready"
      [] fn = "check_cpu_load" -> "Check Error: check_cpu_load"
      [] fn = "check_memory" -> "Check Error: check_memory"
      [] fn = "check_disk" -> "Check Error: check_disk"
      [] fn = "check_crashlooping" -> "Check Error: check_crashlooping"
      [] fn = "check_stuck_pods" -> "Check Error: check_stuck_pods"
      [] fn = "check_endpoints" -> "Check Error: check_endpoints"
      [] fn = "check_internal_health" -> "Check Error: check_internal_health"
      [] fn = "check_dns_resolution" -> "Check Error: check_dns_resolution"
      [] fn = "check_oom_kills" -> "Check Error: check_oom_kills"
      [] fn = "check_flux_errors" -> "Check Error: check_flux_errors"
      [] fn = "check_db_fatal" -> "Check Error: check_db_fatal"

\* the alert run_all_checks makes up for a check that raised
SyntheticAlert(fn) ==
    [check_name |-> CheckErrorName(fn),
     severity |-> "warning",
     message |-> Lit(fn, 45)]

\* the k-th alert a check finds
FoundAlert(fn, k) ==
    [check_name |-> fn,
     severity |-> IF k = 1 THEN "critical" ELSE "warning",
     message |-> Lit(fn, ShortLen + k)]

\* what a check can do: return a list of alerts, or raise after it has built
\* some alerts of its own
CheckOutcomes(fn) ==
    { [raises |-> r, alerts |-> [k \in 1..n |-> FoundAlert(fn, k)]] :
        r \in BOOLEAN, n \in 0..MaxAlertsPerCheck }

\* the body of the for loop, with the failure of a check left unreported
CheckStep_Silent(all, fn, out) ==
    IF out.raises THEN all ELSE all \o out.alerts

\* the body of the for loop: extend on return, one synthetic alert on raise
CheckStep(all, fn, out) ==
    IF out.raises
    THEN Append(all, SyntheticAlert(fn))
    ELSE all \o out.alerts

ChecksInit ==
    /\ AgentIdle /\ ToolIdle /\ ConfigDefault /\ TickIdle /\ SchedIdle /\ MoreIdle
    /\ slack_webhook_url = TRUE
    /\ c_pc = "loop"
    /\ c_index = 1
    /\ all_alerts = << >>
    /\ c_outcomes = << >>

\* one iteration of `for check_fn in ALL_CHECKS`
RunCheck(out) ==
    /\ c_pc = "loop"
    /\ c_index <= Len(Checks)
    /\ all_alerts' = CheckStep(all_alerts, Checks[c_index], out)
    /\ c_outcomes' = Append(c_outcomes, out)
    /\ c_index' = c_index + 1
    /\ UNCHANGED c_pc
    /\ UNCHANGED <<agentVars, toolVars, configVars, tickVars, schedVars, moreVars>>

\* `return all_alerts`
ChecksReturn ==
    /\ c_pc = "loop"
    /\ c_index > Len(Checks)
    /\ c_pc' = "returned"
    /\ UNCHANGED <<c_index, all_alerts, c_outcomes>>
    /\ UNCHANGED <<agentVars, toolVars, configVars, tickVars, schedVars, moreVars>>

ChecksNext ==
    \/ \E out \in CheckOutcomes(Checks[IF c_index <= Len(Checks) THEN c_index ELSE 1]) :
           RunCheck(out)
    \/ ChecksReturn

ChecksSpec == ChecksInit /\ [][ChecksNext]_vars

\* what the checks that ran should have contributed, in declaration order
Expected(outs) ==
    Flatten([i \in 1..Len(outs) |->
        IF outs[i].raises
        THEN << [check_name |-> CheckErrorName(ALL_CHECKS[i]),
                 severity |-> "warning",
                 message |-> Lit(ALL_CHECKS[i], 45)] >>
        ELSE outs[i].alerts])

\* C11: run_all_checks runs every check and never raises; what it has gathered
\* is, in declaration order, one synthetic warning alert naming each check
\* that raised and all the alerts of each check that returned, and nothing
\* else from a check that raised.
C11_AllChecksAggregated ==
    /\ c_pc \in {"loop", "returned"}
    /\ all_alerts = Expected(c_outcomes)
    /\ c_pc = "returned" => Len(c_outcomes) = Len(Checks)

C11_Witness ==
    /\ c_pc = "returned"
    /\ \E i \in 1..Len(c_outcomes) :
           c_outcomes[i].raises /\ Len(c_outcomes[i].alerts) > 0
    /\ \E i \in 1..Len(c_outcomes) :
           ~c_outcomes[i].raises /\ Len(c_outcomes[i].alerts) = 2
    /\ Len(all_alerts) >= 3

\* ---------------------------------------------------------------------------
\* One Tier 0 run with its routing: run_tier0 (src/src/runner.py)
\* ---------------------------------------------------------------------------

LLMProviders == {"anthropic", "openai", "ollama"}

\* what run_all_checks may hand to run_tier0
Tier0Results == {<< >>} \cup AlertBatches

\* the test that sends a batch to the investigation, made to hold always
UseInvestigation_Always(key) == TRUE

\* `if config.anthropic_api_key:`
UseInvestigation(key) == key

\* the direct notification of one alert, with the severity left out
DirectNotification_FixedSeverity(webhook, alert, post) ==
    SendSlackAlert(webhook, "warning", alert.check_name,
                   alert.message, post).call

\* send_slack_alert(config, severity=alert.severity, title=alert.check_name,
\*                  message=alert.message)
DirectNotification(webhook, alert, post) ==
    SendSlackAlert(webhook, alert.severity, alert.check_name,
                   alert.message, post).call

\* the state in which run_all_checks has returned to run_tier0
TickInit ==
    /\ ChecksIdle /\ ToolIdle /\ SchedIdle /\ MoreIdle
    /\ anthropic_api_key \in BOOLEAN
    /\ openai_api_key \in BOOLEAN
    /\ ollama_url \in BOOLEAN
    /\ llm_provider \in LLMProviders
    /\ probe_endpoints = NumProbeEndpoints
    /\ slack_webhook_url \in BOOLEAN
    /\ alerts \in Tier0Results
    /\ pc = "off"
    /\ round_num = 0
    /\ requests = 0
    /\ messages = << >>
    /\ sink = << >>
    /\ executed = << >>
    /\ terminal = "none"
    /\ response = NoResponse
    /\ prompt_file = "absent"
    /\ system_prompt = << >>
    /\ request = NoRequest
    /\ k_pc = "route"
    /\ k_index = 1
    /\ k_investigations = 0

\* `if alerts:` is false: all checks passed
RouteHealthy ==
    /\ k_pc = "route"
    /\ alerts = << >>
    /\ k_pc' = "returned"
    /\ UNCHANGED <<k_index, k_investigations>>
    /\ UNCHANGED <<agentVars, toolVars, checkVars, configVars, schedVars, moreVars>>

\* `await investigate_alerts(config, alerts)` is entered: the investigation
\* builds its first message
RouteInvestigate ==
    /\ k_pc = "route"
    /\ alerts # << >>
    /\ UseInvestigation(anthropic_api_key)
    /\ k_pc' = "investigating"
    /\ k_investigations' = k_investigations + 1
    /\ pc' = "complete"
    /\ system_prompt' = LoadSystemPrompt(prompt_file)
    /\ messages' = InitialMessages(alerts)
    /\ UNCHANGED <<alerts, slack_webhook_url, round_num, requests, sink,
                   executed, terminal, response, k_index, prompt_file, request>>
    /\ UNCHANGED <<toolVars, checkVars, configVars, schedVars, moreVars>>

\* the else branch: deliver directly if there is a webhook
RouteDirect ==
    /\ k_pc = "route"
    /\ alerts # << >>
    /\ ~UseInvestigation(anthropic_api_key)
    /\ k_pc' = IF slack_webhook_url THEN "notify" ELSE "returned"
    /\ UNCHANGED <<k_index, k_investigations>>
    /\ UNCHANGED <<agentVars, toolVars, checkVars, configVars, schedVars, moreVars>>

\* one iteration of `for alert in alerts`
NotifyAlert(post) ==
    /\ k_pc = "notify"
    /\ k_index <= Len(alerts)
    /\ sink' = Append(sink, DirectNotification(slack_webhook_url,
                                               alerts[k_index], post))
    /\ k_index' = k_index + 1
    /\ UNCHANGED <<k_pc, k_investigations>>
    /\ UNCHANGED <<alerts, slack_webhook_url, pc, round_num, requests,
                   messages, executed, terminal, response, prompt_file,
                   system_prompt, request>>
    /\ UNCHANGED <<toolVars, checkVars, configVars, schedVars, moreVars>>

\* the for loop is over
NotifyDone ==
    /\ k_pc = "notify"
    /\ k_index > Len(alerts)
    /\ k_pc' = "returned"
    /\ UNCHANGED <<k_index, k_investigations>>
    /\ UNCHANGED <<agentVars, toolVars, checkVars, configVars, schedVars, moreVars>>

\* investigate_alerts returns to run_tier0, or its exception goes through
InvestigationEnds ==
    /\ k_pc = "investigating"
    /\ pc \in {"returned", "raised"}
    /\ k_pc' = pc
    /\ UNCHANGED <<k_index, k_investigations>>
    /\ UNCHANGED <<agentVars, toolVars, checkVars, configVars, schedVars, moreVars>>

\* The provider of this specification answers the first request in text or
\* fails; the runs with tool rounds are those of Spec.
TickNext ==
    \/ RouteHealthy
    \/ RouteInvestigate
    \/ RouteDirect
    \/ \E post \in PostOutcomes : NotifyAlert(post)
    \/ NotifyDone
    \/ CompleteRaises
    \/ \E resp \in TextResponses, post \in PostOutcomes : RoundTextOnly(resp, post)
    \/ InvestigationEnds

TickSpec == TickInit /\ [][TickNext]_vars

\* no key of any provider is set
NoAiKey == ~anthropic_api_key /\ ~openai_api_key

\* C12: with no AI key and a webhook configured, a run of run_tier0 over
\* n >= 1 alerts makes exactly n notify calls, the i-th with the severity,
\* check name and message of the i-th alert, never enters the investigation
\* and makes no completion request.
C12_DirectDelivery ==
    (NoAiKey /\ slack_webhook_url /\ Len(alerts) >= 1) =>
        /\ k_investigations = 0
        /\ requests = 0
        /\ pc = "off"
        /\ Len(sink) <= Len(alerts)
        /\ \A i \in 1..Len(sink) :
               /\ sink[i].severity = alerts[i].severity
               /\ sink[i].title = alerts[i].check_name
               /\ sink[i].message = alerts[i].message
               /\ sink[i].status \in {"sent", "failed"}
        /\ k_pc = "returned" => Len(sink) = Len(alerts)

C12_Witness ==
    /\ NoAiKey /\ slack_webhook_url
    /\ k_pc = "returned"
    /\ Len(alerts) = 2
    /\ alerts[1] # alerts[2]
    /\ Len(sink) = 2

\* the selected provider has its credential or URL set
BackendConfigured ==
    CASE llm_provider = "anthropic" -> anthropic_api_key
      [] llm_provider = "openai" -> openai_api_key
      [] llm_provider = "ollama" -> ollama_url

\* C13: a run over a non-empty alert list enters the investigation if and
\* only if the selected provider has its credential or URL set, and delivers
\* each alert directly otherwise.
C13_RoutedIffBackendConfigured ==
    (Len(alerts) >= 1 /\ k_pc # "route") =>
        /\ (k_investigations = 1) <=> BackendConfigured
        /\ (~BackendConfigured /\ slack_webhook_url /\ k_pc = "returned")
               => Len(sink) = Len(alerts)

\* ---------------------------------------------------------------------------
\* SchedulerLoop: main (src/src/runner.py)
\* ---------------------------------------------------------------------------

\* the days the clock goes through
MaxDay == 2

max_digest_attempts == 3
\* config.digest_hour, at its default
digest_hour == 8

Days == 0..MaxDay
\* the hours at which a tick reads the clock: before, in and after the
\* digest hour
TickHours == {digest_hour - 1, digest_hour, digest_hour + 1}
Times == [day : Days, hour : TickHours]

\* now is unbound before the first tick reads the clock
NoTime == [day |-> -1, hour |-> -1]

\* the clock does not go back
NotBefore(t, u) == t.day > u.day \/ (t.day = u.day /\ t.hour >= u.hour)

\* the loop condition, with the flag ignored
LoopCondition_Always(sd) == TRUE

\* `while not shutdown.is_set()`
LoopCondition(sd) == ~sd

\* `now.hour == config.digest_hour and last_digest_date != now.date()`
DigestDue(t, last) == t.hour = digest_hour /\ last # t.day

\* the test of the counter left out
AttemptAllowed_Always(n) == TRUE

\* `digest_attempts < max_digest_attempts`
AttemptAllowed(n) == n < max_digest_attempts

\* the digest step of a tick, made to give way to a pending shutdown
RunsDigest_UnlessShutdown(t, last, n, sd) ==
    DigestDue(t, last) /\ AttemptAllowed(n) /\ ~sd

\* the digest step of a tick runs the digest: nothing in it reads the flag
RunsDigest(t, last, n, sd) == DigestDue(t, last) /\ AttemptAllowed(n)

\* the assignments after a digest that returned, with the date left as it was
AfterSuccess_DateKept(t, last) == [last |-> last, attempts |-> 0]

\* `last_digest_date = now.date(); digest_attempts = 0`
AfterSuccess(t, last) == [last |-> t.day, attempts |-> 0]

\* the except branch, with the day never given up
AfterFailure_NeverDone(t, last, n) == [last |-> last, attempts |-> n + 1]

\* the except branch: count the failure, give up for the day at the limit
AfterFailure(t, last, n) ==
    [last |-> IF n + 1 >= max_digest_attempts THEN t.day ELSE last,
     attempts |-> n + 1]

\* run_tier1_digest returns at once without a key; generate_digest may raise
DigestOutcomes(key) == IF key THEN {"ok", "raise"} ELSE {"ok"}

\* the wait as a plain sleep of the interval
WaitOver_SleepOnly(sd, el) == el

\* asyncio.wait_for(shutdown.wait(), timeout=config.check_interval_seconds)
WaitOver(sd, el) == sd \/ el

SchedInit ==
    /\ AgentIdle /\ ToolIdle /\ ChecksIdle /\ TickIdle /\ MoreIdle
    /\ slack_webhook_url = TRUE
    /\ anthropic_api_key \in BOOLEAN
    /\ openai_api_key = FALSE
    /\ ollama_url = FALSE
    /\ llm_provider = "anthropic"
    /\ probe_endpoints = NumProbeEndpoints
    /\ s_pc = "top"
    /\ shutdown = FALSE
    /\ signal_at = "none"
    /\ elapsed = FALSE
    /\ now = NoTime
    /\ last_digest_date = -1
    /\ digest_attempts = 0
    /\ failsOn = [d \in Days |-> 0]
    /\ okOn = [d \in Days |-> 0]
    /\ last_outcome = "none"
    /\ late_tick = FALSE
    /\ exit_status = -1

SchedFrame ==
    UNCHANGED <<agentVars, toolVars, checkVars, configVars, tickVars, moreVars>>

\* handle_signal: SIGTERM or SIGINT sets the event
Signal ==
    /\ s_pc \notin {"stopped", "exited"}
    /\ ~shutdown
    /\ shutdown' = TRUE
    /\ signal_at' = s_pc
    /\ UNCHANGED <<s_pc, elapsed, now, last_digest_date, digest_attempts,
                   failsOn, okOn, last_outcome, late_tick, exit_status>>
    /\ SchedFrame

\* the loop condition holds: the tick begins with run_tier0
TickStarts ==
    /\ s_pc = "top"
    /\ LoopCondition(shutdown)
    /\ s_pc' = "tier0"
    /\ late_tick' = (late_tick \/ shutdown)
    /\ UNCHANGED <<shutdown, signal_at, elapsed, now, last_digest_date,
                   digest_attempts, failsOn, okOn, last_outcome, exit_status>>
    /\ SchedFrame

\* the loop condition fails: main goes on to its last line
LoopExits ==
    /\ s_pc = "top"
    /\ ~LoopCondition(shutdown)
    /\ s_pc' = "stopped"
    /\ UNCHANGED <<shutdown, signal_at, elapsed, now, last_digest_date,
                   digest_attempts, failsOn, okOn, last_outcome, late_tick,
                   exit_status>>
    /\ SchedFrame

\* run_tier0 returns, or raises and the exception is logged
Tier0Ends ==
    /\ s_pc = "tier0"
    /\ s_pc' = "digest_check"
    /\ UNCHANGED <<shutdown, signal_at, elapsed, now, last_digest_date,
                   digest_attempts, failsOn, okOn, last_outcome, late_tick,
                   exit_status>>
    /\ SchedFrame

\* lines 90 to 92 and 106 to 107: read the clock, decide about the digest
DigestCheck(t) ==
    /\ s_pc = "digest_check"
    /\ NotBefore(t, now)
    /\ now' = t
    /\ IF RunsDigest(t, last_digest_date, digest_attempts, shutdown)
       THEN /\ s_pc' = "digest_run"
            /\ UNCHANGED <<digest_attempts, last_outcome, elapsed>>
       ELSE /\ s_pc' = "wait"
            /\ elapsed' = FALSE
            /\ last_outcome' = "none"
            /\ digest_attempts' = IF DigestDue(t, last_digest_date)
                                  THEN digest_attempts
                                  ELSE 0
    /\ UNCHANGED <<shutdown, signal_at, last_digest_date, failsOn, okOn,
                   late_tick, exit_status>>
    /\ SchedFrame

\* lines 93 to 105: run_tier1_digest returns or raises
DigestEnds(outcome) ==
    /\ s_pc = "digest_run"
    /\ LET after == IF outcome = "ok"
                    THEN AfterSuccess(now, last_digest_date)
                    ELSE AfterFailure(now, last_digest_date, digest_attempts)
       IN /\ last_digest_date' = after.last
          /\ digest_attempts' = after.attempts
    /\ okOn' = IF outcome = "ok"
               THEN [okOn EXCEPT ![now.day] = @ + 1]
               ELSE okOn
    /\ failsOn' = IF outcome = "ok"
                  THEN failsOn
                  ELSE [failsOn EXCEPT ![now.day] = @ + 1]
    /\ last_outcome' = IF outcome = "ok" THEN "ok" ELSE "failed"
    /\ s_pc' = "wait"
    /\ elapsed' = FALSE
    /\ UNCHANGED <<shutdown, signal_at, now, late_tick, exit_status>>
    /\ SchedFrame

\* check_interval_seconds have gone by since the wait began
IntervalElapses ==
    /\ s_pc = "wait"
    /\ ~elapsed
    /\ elapsed' = TRUE
    /\ UNCHANGED <<s_pc, shutdown, signal_at, now, last_digest_date,
                   digest_attempts, failsOn, okOn, last_outcome, late_tick,
                   exit_status>>
    /\ SchedFrame

\* wait_for returns, or times out and the TimeoutError is passed over
WaitReturns ==
    /\ s_pc = "wait"
    /\ WaitOver(shutdown, elapsed)
    /\ s_pc' = "top"
    /\ UNCHANGED <<shutdown, signal_at, elapsed, now, last_digest_date,
                   digest_attempts, failsOn, okOn, last_outcome, late_tick,
                   exit_status>>
    /\ SchedFrame

\* main returns and asyncio.run hands back: the process ends normally
MainReturns ==
    /\ s_pc = "stopped"
    /\ s_pc' = "exited"
    /\ exit_status' = 0
    /\ UNCHANGED <<shutdown, signal_at, elapsed, now, last_digest_date,
                   digest_attempts, failsOn, okOn, last_outcome, late_tick>>
    /\ SchedFrame

SchedStep ==
    \/ TickStarts
    \/ LoopExits
    \/ Tier0Ends
    \/ \E t \in Times : DigestCheck(t)
    \/ \E outcome \in DigestOutcomes(anthropic_api_key) : DigestEnds(outcome)
    \/ WaitReturns
    \/ MainReturns

SchedNext ==
    \/ Signal
    \/ IntervalElapses
    \/ SchedStep

SchedSpec == SchedInit /\ [][SchedNext]_vars

\* The steps of main go on: every await of a tick comes back.  Nothing is
\* assumed about signals or about the interval running out.
FairSchedSpec == SchedSpec /\ WF_vars(SchedStep)

\* the digest attempts begun on day d
AttemptsOn(d) ==
    failsOn[d] + okOn[d] + (IF s_pc = "digest_run" /\ now.day = d THEN 1 ELSE 0)

\* the digest step of a tick is taken
DigestStep == s_pc = "digest_check" /\ s_pc' # "digest_check"

\* C14: no calendar date sees more than 3 digest attempts, and once 3
\* attempts of a date have failed the date is marked done, so that no later
\* tick of that date makes a 4th attempt.
C14_AtMostThreeAttempts ==
    \A d \in Days :
        /\ AttemptsOn(d) <= 3
        /\ failsOn[d] = 3 => (last_digest_date >= d /\ okOn[d] = 0)

C14_Witness ==
    /\ now # NoTime
    /\ failsOn[now.day] = 3
    /\ now.hour = digest_hour
    /\ s_pc = "wait"
    /\ last_outcome = "none"

\* C15: a digest that succeeds sets the last-digest date to the date of its
\* tick and the failure counter to 0; no tick of that date attempts a digest
\* afterwards, and no date sees two successful digests.
C15_SuccessEndsTheDay ==
    /\ [](\A d \in Days : okOn[d] <= 1)
    /\ [][(s_pc = "digest_run" /\ last_outcome' = "ok" /\ s_pc' = "wait")
             => (last_digest_date' = now.day /\ digest_attempts' = 0)]_vars
    /\ [][(DigestStep /\ s_pc' = "digest_run") => okOn[now'.day] = 0]_vars

C15_Witness ==
    /\ now # NoTime
    /\ okOn[now.day] = 1
    /\ failsOn[now.day] = 2
    /\ now.hour = digest_hour
    /\ s_pc = "wait"
    /\ last_outcome = "none"

\* C16: at the first tick in the digest hour of a date, whatever happened on
\* the dates before it and however the ticks are spaced, the failure counter
\* is 0 and a digest attempt is made.
C16_NewDayStartsFresh ==
    [][(DigestStep /\ now # NoTime /\ now' # now /\ now'.hour = digest_hour)
         => (digest_attempts = 0 /\ s_pc' = "digest_run")]_vars

\* C17: after a failed attempt that leaves fewer than 3 failures for its
\* date, the next tick in the digest hour of that date makes another attempt;
\* a tick outside the digest hour makes none.
C17_RetryWithinTheHour ==
    [][DigestStep =>
         /\ (last_outcome = "failed" /\ failsOn[now.day] < 3 /\ now' = now)
                => s_pc' = "digest_run"
         /\ now'.hour # digest_hour => s_pc' = "wait"]_vars

\* C18: once the shutdown signal has been received no tick is started: a
\* tick in flight under a set flag began before the signal came.
C18_NoTickAfterShutdown ==
    /\ ~late_tick
    /\ (shutdown /\ signal_at \in {"top", "wait"})
           => s_pc \in {"top", "wait", "stopped", "exited"}

C18_Witness ==
    /\ shutdown
    /\ signal_at = "top"
    /\ s_pc = "exited"

\* C19: a shutdown during the wait ends the wait at once, without the
\* interval running out; the loop then exits and the process ends with
\* status 0; if the steps of main go on, every shutdown signal is followed
\* by the end of the loop.
C19_ShutdownEndsTheLoop ==
    /\ []((s_pc = "wait" /\ shutdown) => ENABLED WaitReturns)
    /\ [][(s_pc = "top" /\ shutdown /\ s_pc' # s_pc) => s_pc' = "stopped"]_vars
    /\ [](s_pc = "exited" => (shutdown /\ exit_status = 0))
    /\ [](exit_status \in {-1, 0})
    /\ shutdown ~> (s_pc = "exited" /\ exit_status = 0)

C19_Witness ==
    /\ signal_at = "wait"
    /\ ~elapsed
    /\ s_pc = "exited"
    /\ exit_status = 0

\* C20: a shutdown signal that arrives while a tick is in flight aborts
\* nothing: run_tier0 is followed by the digest step, a digest that is due
\* is run and its outcome recorded, and the loop is left only from its top.
C20_TickRunsToItsEnd ==
    [][/\ s_pc = "tier0" => s_pc' \in {"tier0", "digest_check"}
       /\ DigestStep =>
              s_pc' = IF DigestDue(now', last_digest_date)
                         /\ digest_attempts < max_digest_attempts
                      THEN "digest_run" ELSE "wait"
       /\ s_pc = "digest_run" => s_pc' \in {"digest_run", "wait"}
       /\ (s_pc = "digest_run" /\ s_pc' = "wait")
              => (okOn' # okOn \/ failsOn' # failsOn)
       /\ (s_pc' = "stopped" /\ s_pc # "stopped") => s_pc = "top"]_vars

C20_Witness ==
    /\ signal_at = "tier0"
    /\ s_pc = "wait"
    /\ last_outcome = "ok"

\* ---------------------------------------------------------------------------
\* DigestGenerator: run_tier1_digest (src/src/runner.py) and generate_digest
\* (src/agents/sentinel/digest.py)
\* ---------------------------------------------------------------------------

\* the facts of the summary, in the order _collect_24h_summary gathers them
DigestFacts ==
    << "NODES", "CPU_LOAD", "MEMORY", "DISK", "PODS", "ERRORS_24H", "ENDPOINTS" >>

NumFacts == Len(DigestFacts)

\* the label of a line that carries data
DataLabel(f) == IF f = "CPU_LOAD" THEN "CPU_LOAD_15M: " ELSE f

\* the words of the except branch of a fact
FailureWords(f) == IF f = "ENDPOINTS" THEN "check failed (" ELSE "query failed ("

\* the parameters of check_endpoint_via_traefik, those without a default, and
\* the keywords the digest passes
ProbeParameters == {"host", "traefik_ip", "timeout", "expected_status"}
ProbeRequired == {"host", "traefik_ip"}
DigestProbeKeywords == {"host", "traefik_url"}

\* a Python call binds if every keyword names a parameter and every parameter
\* without a default is given
CallBinds(keywords, parameters, required) ==
    keywords \subseteq parameters /\ required \subseteq keywords

\* what the collaborator of a fact can do: query_metrics and query_logs
\* return or raise; check_endpoint_via_traefik catches its own failures and
\* returns an unhealthy result
FactOutcomes(f) == IF f = "ENDPOINTS" THEN {"ok", "unhealthy"} ELSE {"ok", "raises"}

\* the try block of a fact runs into its except branch
FactFails(f, out) ==
    IF f = "ENDPOINTS"
    THEN NumProbeEndpoints > 0
         /\ ~CallBinds(DigestProbeKeywords, ProbeParameters, ProbeRequired)
    ELSE out = "raises"

\* the line a fact adds to the summary
FactLine(f, out) ==
    IF FactFails(f, out)
    THEN Lit(f, 10) \o Lit(FailureWords(f), 14) \o Lit("exception text", 20)
    ELSE Lit(DataLabel(f), 10)
         \o Lit(IF out = "unhealthy" THEN "FAIL" ELSE "collected data", ShortLen)

AllFactOutcomes ==
    { outs \in [1..NumFacts -> {"ok", "raises", "unhealthy"}] :
        \A i \in 1..NumFacts : outs[i] \in FactOutcomes(DigestFacts[i]) }

\* "\n".join(lines)
SummaryText(lines) == Join(Lit("newline", 1), lines)

\* the request of generate_digest, with the investigation tools passed along
DigestRequest_WithTools(summary) ==
    [system |-> "DIGEST_SYSTEM_PROMPT",
     messages |-> << [role |-> "user",
                      content |-> Lit("Here is today's cluster health data", 37)
                                  \o summary] >>,
     tools |-> INVESTIGATION_TOOLS,
     max_tokens |-> 500]

\* llm.complete(system=DIGEST_SYSTEM_PROMPT, messages=[...], max_tokens=500)
DigestRequest(summary) ==
    [system |-> "DIGEST_SYSTEM_PROMPT",
     messages |-> << [role |-> "user",
                      content |-> Lit("Here is today's cluster health data", 37)
                                  \o summary] >>,
     tools |-> {},
     max_tokens |-> 500]

\* the texts a provider may answer the digest request with
DigestTexts == {<< >>, ShortText, LongText}

DigestInit ==
    /\ ToolIdle /\ ChecksIdle /\ TickIdle /\ SchedIdle /\ LlmIdle /\ SinkIdle
    /\ AgentIdle
    /\ slack_webhook_url \in BOOLEAN
    /\ anthropic_api_key \in BOOLEAN
    /\ openai_api_key = FALSE
    /\ ollama_url = FALSE
    /\ llm_provider = "anthropic"
    /\ probe_endpoints = NumProbeEndpoints
    /\ d_pc = "enter"
    /\ d_outcomes = << >>
    /\ d_lines = << >>
    /\ d_requests = << >>
    /\ d_response = << >>

\* what the digest leaves alone, with the failure counter reset by the
\* digest itself
DigestFrame_ResetsCounter ==
    /\ digest_attempts' = 0
    /\ UNCHANGED <<s_pc, shutdown, signal_at, elapsed, now, last_digest_date,
                   failsOn, okOn, last_outcome, late_tick, exit_status>>
    /\ UNCHANGED <<toolVars, checkVars, configVars, tickVars, llmVars, sinkVars>>

\* run_tier1_digest and generate_digest get config and nothing else: the
\* locals of main are out of their reach
DigestFrame ==
    UNCHANGED <<toolVars, checkVars, configVars, tickVars, schedVars, llmVars,
                sinkVars>>

AgentFrameButSink ==
    UNCHANGED <<alerts, slack_webhook_url, pc, round_num, requests, messages,
                executed, terminal, response, prompt_file,
                   system_prompt, request>>

\* the test of run_tier1_digest, made to let every call through
DigestEnabled_Always(key) == TRUE

\* `if not config.anthropic_api_key: return`
DigestEnabled(key) == key

\* run_tier1_digest: return at once without a key, else generate_digest
DigestEnter ==
    /\ d_pc = "enter"
    /\ d_pc' = IF DigestEnabled(anthropic_api_key) THEN "collect" ELSE "skipped"
    /\ UNCHANGED <<d_outcomes, d_lines, d_requests, d_response, sink>>
    /\ AgentFrameButSink /\ DigestFrame

\* _collect_24h_summary: seven try blocks, each adding one line
Collect(outs) ==
    /\ d_pc = "collect"
    /\ d_outcomes' = outs
    /\ d_lines' = [i \in 1..NumFacts |-> FactLine(DigestFacts[i], outs[i])]
    /\ d_pc' = "complete"
    /\ UNCHANGED <<d_requests, d_response, sink>>
    /\ AgentFrameButSink /\ DigestFrame

\* llm.complete raises: generate_digest and run_tier1_digest let it through
DigestCompleteRaises ==
    /\ d_pc = "complete"
    /\ d_requests' = Append(d_requests, DigestRequest(SummaryText(d_lines)))
    /\ d_pc' = "raised"
    /\ UNCHANGED <<d_outcomes, d_lines, d_response, sink>>
    /\ AgentFrameButSink /\ DigestFrame

\* llm.complete returns; digest_text = response["content"]
DigestCompleteReturns(text) ==
    /\ d_pc = "complete"
    /\ d_requests' = Append(d_requests, DigestRequest(SummaryText(d_lines)))
    /\ d_response' = text
    /\ d_pc' = "notify"
    /\ UNCHANGED <<d_outcomes, d_lines, sink>>
    /\ AgentFrameButSink /\ DigestFrame

\* the digest with an undelivered notification turned into an exception
DigestNotify_RaisesUndelivered(post) ==
    LET s == SendSlackAlert(slack_webhook_url, "info", "Daily Health Digest",
                            d_response, post)
    IN /\ d_pc = "notify"
       /\ sink' = Append(sink, s.call)
       /\ d_pc' = IF s.ret THEN "returned" ELSE "raised"
       /\ UNCHANGED <<d_outcomes, d_lines, d_requests, d_response>>
       /\ AgentFrameButSink /\ DigestFrame

\* send_slack_alert(config, severity="info", title="Daily Health Digest",
\*                  message=digest_text), its result ignored
DigestNotify(post) ==
    /\ d_pc = "notify"
    /\ sink' = Append(sink, SendSlackAlert(slack_webhook_url, "info",
                                "Daily Health Digest", d_response, post).call)
    /\ d_pc' = "returned"
    /\ UNCHANGED <<d_outcomes, d_lines, d_requests, d_response>>
    /\ AgentFrameButSink /\ DigestFrame

DigestNext ==
    \/ DigestEnter
    \/ \E outs \in AllFactOutcomes : Collect(outs)
    \/ DigestCompleteRaises
    \/ \E text \in DigestTexts : DigestCompleteReturns(text)
    \/ \E post \in PostOutcomes : DigestNotify(post)

DigestSpec == DigestInit /\ [][DigestNext]_vars

\* a line of the summary is a placeholder for a fact that could not be got
IsPlaceholder(line) ==
    \E i \in 1..Len(line) : line[i].src \in {"query failed (", "check failed ("}

Collected == d_pc \in {"complete", "notify", "returned", "raised"}

\* C21: the collection never raises and returns the seven fact lines in their
\* fixed order; the line of a fact is a failure placeholder exactly when the
\* collaborator of that fact raised, so that with one collaborator raising
\* every other line carries its data.
C21_OnlyFailedFactIsPlaceholder ==
    Collected =>
        /\ Len(d_lines) = NumFacts
        /\ \A i \in 1..NumFacts :
               /\ Head(d_lines[i]).src \in {DigestFacts[i], DataLabel(DigestFacts[i])}
               /\ IsPlaceholder(d_lines[i]) <=> d_outcomes[i] = "raises"

\* C22: one generate_digest call makes exactly one completion request, with
\* no tool descriptors and one user turn that holds the summary, dispatches
\* no tool, and hands the response text to the sink exactly once.
C22_OneRequestOneNotification ==
    /\ Len(d_requests) <= 1
    /\ Len(sink) <= 1
    /\ executed = << >>
    /\ d_pc \in {"notify", "returned", "raised"} =>
           /\ Len(d_requests) = 1
           /\ d_requests[1].tools = {}
           /\ Len(d_requests[1].messages) = 1
           /\ d_requests[1].messages[1].role = "user"
           /\ d_requests[1].messages[1].content =
                  Lit("Here is today's cluster health data", 37)
                  \o SummaryText(d_lines)
    /\ d_pc \in {"enter", "skipped", "collect", "complete", "notify", "raised"}
           => sink = << >>
    /\ d_pc = "returned" =>
           /\ Len(sink) = 1
           /\ sink[1].message = d_response
           /\ sink[1].title = "Daily Health Digest"
           /\ sink[1].severity = "info"

C22_Witness ==
    /\ d_pc = "returned"
    /\ d_response = LongText
    /\ Len(sink) = 1
    /\ sink[1].status = "sent"
    /\ \E i \in 1..NumFacts : d_outcomes[i] = "raises"

\* ---------------------------------------------------------------------------
\* One whole tick in the digest hour: run_tier0, then run_tier1_digest
\* (src/src/runner.py, lines 84 to 94)
\* ---------------------------------------------------------------------------

\* the collaborators of the digest facts in this specification: all of them
\* succeed, or the first query raises
TickFactOutcomes ==
    { outs \in AllFactOutcomes :
        \A i \in 2..NumFacts : outs[i] = "ok" }

\* run_tier0 has returned, or raised and been logged; the digest is due
DigestStepBegins ==
    /\ k_pc \in {"returned", "raised"}
    /\ d_pc = "off"
    /\ d_pc' = "enter"
    /\ UNCHANGED <<d_outcomes, d_lines, d_requests, d_response>>
    /\ UNCHANGED <<agentVars, toolVars, checkVars, configVars, tickVars,
                   schedVars, llmVars, sinkVars>>

WholeTickNext ==
    \/ TickNext
    \/ DigestStepBegins
    \/ DigestEnter
    \/ \E outs \in TickFactOutcomes : Collect(outs)
    \/ DigestCompleteRaises
    \/ \E text \in DigestTexts : DigestCompleteReturns(text)
    \/ \E post \in PostOutcomes : DigestNotify(post)

WholeTickSpec == TickInit /\ [][WholeTickNext]_vars

\* no provider has a credential or URL
NoCredentials == ~anthropic_api_key /\ ~openai_api_key /\ ~ollama_url

\* C23: with no AI credentials a tick collects no digest fact, makes no
\* completion request and sends no digest notification, and its alerts are
\* forwarded directly, one notification per alert, without any error.
C23_NoCredentialsNoDigest ==
    NoCredentials =>
        /\ d_pc \in {"off", "enter", "skipped"}
        /\ d_lines = << >>
        /\ d_outcomes = << >>
        /\ d_requests = << >>
        /\ requests = 0
        /\ \A i \in 1..Len(sink) : sink[i].title # "Daily Health Digest"
        /\ k_investigations = 0
        /\ pc = "off"
        /\ k_pc # "raised"
        /\ (k_pc = "returned" /\ slack_webhook_url) =>
               /\ Len(sink) = Len(alerts)
               /\ \A i \in 1..Len(sink) : sink[i].title = alerts[i].check_name

C23_Witness ==
    /\ NoCredentials
    /\ slack_webhook_url
    /\ d_pc = "skipped"
    /\ Len(alerts) = 2
    /\ Len(sink) = 2

\* ---------------------------------------------------------------------------
\* NotificationSink: one call of send_slack_alert (src/shared/tools/slack.py)
\* ---------------------------------------------------------------------------

\* the severities a caller may pass: the four known ones, an unknown word,
\* and a value that is not a string (a send_alert tool call may carry one)
SinkSeverities ==
    {"critical", "warning", "info", "resolved", "unheard-of", "NOT_A_STRING"}

SinkTitles == {"Investigation Result", "Daily Health Digest", "CPU Load Critical"}

SinkMessages == {<< >>, ShortText, LongText}

SinkInit ==
    /\ AgentIdle /\ ToolIdle /\ ChecksIdle /\ ConfigDefault /\ TickIdle
    /\ SchedIdle /\ DigestIdle /\ LlmIdle
    /\ slack_webhook_url \in BOOLEAN
    /\ n_pc = "call"
    /\ n_args \in [severity : SinkSeverities, title : SinkTitles,
                   message : SinkMessages]
    /\ n_post \in PostOutcomes
    /\ n_out = << >>

\* the whole of send_slack_alert
SinkCall ==
    /\ n_pc = "call"
    /\ LET r == SendSlackAlert(slack_webhook_url, n_args.severity,
                               n_args.title, n_args.message, n_post)
       IN n_out' = [raised |-> r.raised,
                    ret |-> r.ret,
                    posts |-> IF r.call.status \in {"sent", "failed"}
                              THEN 1 ELSE 0]
    /\ n_pc' = "done"
    /\ UNCHANGED <<n_args, n_post>>
    /\ UNCHANGED <<agentVars, toolVars, checkVars, configVars, tickVars,
                   schedVars, digestVars, llmVars>>

SinkNext == SinkCall

SinkSpec == SinkInit /\ [][SinkNext]_vars

\* C24: send_slack_alert never raises to its caller; a failed delivery
\* returns false, and without a webhook nothing is sent and false is returned.
C24_SinkNeverRaises ==
    n_pc = "done" =>
        /\ ~n_out.raised
        /\ (slack_webhook_url /\ n_post = "fail") => ~n_out.ret
        /\ ~slack_webhook_url => (~n_out.ret /\ n_out.posts = 0)

\* ---------------------------------------------------------------------------
\* CompletionProvider: LLMProvider.complete (src/shared/llm/provider.py),
\* followed by the round of the investigation that receives its result
\* ---------------------------------------------------------------------------

\* the most tool calls a backend puts in one response here
MaxBackendCalls == 2

\* ---- what a backend may send back ----

TextBlock(t) == [type |-> "text", text |-> t, id |-> 0, name |-> "", input |-> << >>]

ToolUseBlock(id, call) ==
    [type |-> "tool_use", text |-> << >>, id |-> id, name |-> call.name,
     input |-> call.input]

\* a block of a kind complete knows nothing about
OtherBlock == [type |-> "thinking", text |-> ShortText, id |-> 0, name |-> "",
               input |-> << >>]

\* the tool calls of a backend response: up to MaxBackendCalls calls with
\* ids of the backend's own choosing
BackendCalls ==
    { [i \in 1..n |-> [id |-> 70 + 2 * ((i + k) % MaxBackendCalls),
                       call |-> IF (i + k) % 2 = 0 THEN QueryMetricsCall
                                ELSE SendAlertCall]] :
        n \in 0..MaxBackendCalls, k \in 0..1 }

\* Anthropic: response.content is a list of blocks
AnthropicBodies ==
    { pre \o [i \in 1..Len(cs) |-> ToolUseBlock(cs[i].id, cs[i].call)] \o post :
        cs \in BackendCalls,
        pre \in {<< >>, << TextBlock(ShortText) >>, << OtherBlock, TextBlock(ShortText) >>},
        post \in {<< >>, << TextBlock(LongText) >>} }

\* json.dumps of the arguments, or a text that is not JSON
JsonText(wellformed, value) == [wellformed |-> wellformed, value |-> value]

\* OpenAI: choices[0].message, content may be null (here the empty text)
OpenAIBodies ==
    { [content |-> c,
       tool_calls |-> [i \in 1..Len(cs) |->
           [id |-> cs[i].id, name |-> cs[i].call.name,
            arguments |-> JsonText(wf \/ i < Len(cs), cs[i].call.input)]]] :
        cs \in BackendCalls, c \in {<< >>, ShortText}, wf \in BOOLEAN }

\* Ollama: message.content; the message may be missing from the body
OllamaBodies ==
    { [has_message |-> h, content |-> c] :
        h \in BOOLEAN, c \in {<< >>, ShortText} }

\* the ways a backend request fails before a body can be read
BackendFailures == {"transport", "auth", "not_json"}

BackendOutcomes(provider) ==
    { [kind |-> k, body |-> << >>] : k \in BackendFailures }
    \cup { [kind |-> "body", body |-> b] :
             b \in CASE provider = "anthropic" -> AnthropicBodies
                     [] provider = "openai" -> OpenAIBodies
                     [] provider = "ollama" -> OllamaBodies }

\* ---- what complete makes of it ----

RECURSIVE ConcatTexts(_)
\* `content += block.text` over the text blocks
ConcatTexts(blocks) ==
    IF blocks = << >> THEN << >>
    ELSE (IF Head(blocks).type = "text" THEN Head(blocks).text ELSE << >>)
         \o ConcatTexts(Tail(blocks))

IsToolUse(b) == b.type = "tool_use"

\* the Anthropic conversion, with the calls in reverse order
AnthropicResult_Reversed(blocks) ==
    LET uses == SelectSeq(blocks, IsToolUse)
    IN [raised |-> FALSE,
        content |-> ConcatTexts(blocks),
        tool_calls |-> [i \in 1..Len(uses) |->
            [id |-> uses[Len(uses) + 1 - i].id,
             name |-> uses[Len(uses) + 1 - i].name,
             input |-> uses[Len(uses) + 1 - i].input]]]

\* _anthropic_complete, lines 64 to 80
AnthropicResult(blocks) ==
    LET uses == SelectSeq(blocks, IsToolUse)
    IN [raised |-> FALSE,
        content |-> ConcatTexts(blocks),
        tool_calls |-> [i \in 1..Len(uses) |->
            [id |-> uses[i].id, name |-> uses[i].name, input |-> uses[i].input]]]

\* _openai_complete, lines 118 to 133: json.loads raises on a text that is
\* not JSON
OpenAIResult(msg) ==
    IF \E i \in 1..Len(msg.tool_calls) : ~msg.tool_calls[i].arguments.wellformed
    THEN [raised |-> TRUE, content |-> << >>, tool_calls |-> << >>]
    ELSE [raised |-> FALSE,
          content |-> msg.content,
          tool_calls |-> [i \in 1..Len(msg.tool_calls) |->
              [id |-> msg.tool_calls[i].id,
               name |-> msg.tool_calls[i].name,
               input |-> msg.tool_calls[i].arguments.value]]]

\* the Ollama path, with the tool descriptors refused
OllamaResult_RefusesTools(body, tools) ==
    [raised |-> tools,
     content |-> IF body.has_message THEN body.content ELSE << >>,
     tool_calls |-> << >>]

\* _ollama_complete, lines 152 to 156:
\* data.get("message", {}).get("content", ""), and no tool calls ever
OllamaResult(body, tools) ==
    [raised |-> FALSE,
     content |-> IF body.has_message THEN body.content ELSE << >>,
     tool_calls |-> << >>]

\* what complete does with the outcome of its one backend request
CompleteResult(provider, outcome, tools) ==
    IF outcome.kind \in BackendFailures
    THEN [raised |-> TRUE, content |-> << >>, tool_calls |-> << >>]
    ELSE CASE provider = "anthropic" -> AnthropicResult(outcome.body)
           [] provider = "openai" -> OpenAIResult(outcome.body)
           [] provider = "ollama" -> OllamaResult(outcome.body, tools)

\* an investigation of one alert is about to make its first request
LlmInit ==
    /\ ToolIdle /\ ChecksIdle /\ TickIdle /\ SchedIdle /\ DigestIdle /\ SinkIdle
    /\ anthropic_api_key = TRUE
    /\ openai_api_key = TRUE
    /\ ollama_url = TRUE
    /\ llm_provider \in LLMProviders
    /\ probe_endpoints = NumProbeEndpoints
    /\ slack_webhook_url \in BOOLEAN
    /\ alerts = << CpuAlert >>
    /\ pc = "complete"
    /\ round_num = 0
    /\ requests = 0
    /\ messages = InitialMessages(alerts)
    /\ sink = << >>
    /\ executed = << >>
    /\ terminal = "none"
    /\ response = NoResponse
    /\ prompt_file = "absent"
    /\ system_prompt = << >>
    /\ request = NoRequest
    /\ l_pc = "call"
    /\ l_tools \in BOOLEAN
    /\ l_backend \in BackendOutcomes(llm_provider)
    /\ l_posts = 0
    /\ l_out = << >>

LlmFrame ==
    UNCHANGED <<agentVars, toolVars, checkVars, configVars, tickVars, schedVars,
                digestVars, sinkVars>>

\* complete hands its one request to the client of the selected backend
LlmSend ==
    /\ l_pc = "call"
    /\ l_posts' = l_posts + 1
    /\ l_pc' = "sent"
    /\ UNCHANGED <<l_tools, l_backend, l_out>>
    /\ LlmFrame

\* the client comes back: complete returns its result or lets the failure out
LlmReceive ==
    /\ l_pc = "sent"
    /\ LET r == CompleteResult(llm_provider, l_backend, l_tools)
       IN /\ l_pc' = IF r.raised THEN "raised" ELSE "returned"
          /\ l_out' = IF r.raised THEN l_out ELSE Response(r.content, r.tool_calls)
    /\ UNCHANGED <<l_tools, l_backend, l_posts>>
    /\ LlmFrame

\* the round of the investigation that made the request goes on with what
\* complete gave it
AgentTakesText(post) ==
    /\ l_pc = "returned" /\ l_tools /\ requests = 0
    /\ RoundTextOnly(l_out, post)

AgentTakesCalls(envs) ==
    /\ l_pc = "returned" /\ l_tools /\ requests = 0
    /\ RoundToolCalls(l_out, envs)

AgentSeesFailure ==
    /\ l_pc = "raised" /\ l_tools /\ requests = 0
    /\ CompleteRaises

LlmNext ==
    \/ LlmSend
    \/ LlmReceive
    \/ \E post \in PostOutcomes : AgentTakesText(post)
    \/ \E envs \in EnvChoices(IF l_pc = "returned" THEN l_out.tool_calls ELSE << >>) :
           AgentTakesCalls(envs)
    \/ AgentSeesFailure

LlmSpec == LlmInit /\ [][LlmNext]_vars

\* C25: on the text-only backend complete does not fail when it is given tool
\* descriptors and returns no tool calls, so the investigation that called it
\* ends by text in its first round.
C25_TextOnlyBackendConcludes ==
    llm_provider = "ollama" =>
        /\ l_backend.kind = "body" => l_pc # "raised"
        /\ l_pc = "returned" => l_out.tool_calls = << >>
        /\ requests >= 1 =>
               /\ pc \in {"returned", "raised"}
               /\ round_num = 0
               /\ requests = 1
               /\ l_pc = "returned" => terminal = "Concluded-by-text"

C25_Witness ==
    /\ llm_provider = "ollama"
    /\ l_tools
    /\ terminal = "Concluded-by-text"
    /\ Len(sink) = 1

\* C26: on the Anthropic and OpenAI backends the tool calls complete returns
\* are those of the backend response, one for one and in the same order, each
\* with its id, name and arguments, and the text of the response comes with
\* them.
C26_ToolCallsPreserved ==
    (l_pc = "returned" /\ llm_provider \in {"anthropic", "openai"}) =>
        LET body == l_backend.body
            sent == IF llm_provider = "anthropic"
                    THEN SelectSeq(body, IsToolUse)
                    ELSE body.tool_calls
        IN /\ Len(l_out.tool_calls) = Len(sent)
           /\ \A i \in 1..Len(sent) :
                  /\ l_out.tool_calls[i].id = sent[i].id
                  /\ l_out.tool_calls[i].name = sent[i].name
                  /\ l_out.tool_calls[i].input =
                         IF llm_provider = "anthropic" THEN sent[i].input
                         ELSE sent[i].arguments.value
           /\ l_out.content = IF llm_provider = "anthropic"
                              THEN ConcatTexts(body)
                              ELSE body.content

C26_Witness ==
    /\ l_pc = "returned"
    /\ llm_provider = "anthropic"
    /\ Len(l_out.tool_calls) = 2
    /\ l_out.tool_calls[1].id # l_out.tool_calls[2].id
    /\ l_out.content # << >>

\* the backend did not give a well-formed answer
BackendFailed ==
    \/ l_backend.kind \in BackendFailures
    \/ /\ llm_provider = "openai"
       /\ \E i \in 1..Len(l_backend.body.tool_calls) :
              ~l_backend.body.tool_calls[i].arguments.wellformed
    \/ /\ llm_provider = "ollama"
       /\ ~l_backend.body.has_message

\* C27: one call of complete makes exactly one backend request, and when the
\* transport fails, the credentials are refused or the response is malformed
\* it fails to its caller, without another request.
C27_OneRequestNoRetry ==
    l_pc \in {"returned", "raised"} =>
        /\ l_posts = 1
        /\ BackendFailed => l_pc = "raised"

\* ---------------------------------------------------------------------------
\* One iteration of the loop of main with all that it calls: run_tier0, the
\* digest step and run_tier1_digest (src/src/runner.py, lines 84 to 107)
\* ---------------------------------------------------------------------------

\* the tick starts with any DigestState an earlier tick may have left
FrameInit ==
    /\ ChecksIdle /\ ToolIdle /\ MoreIdle
    /\ anthropic_api_key \in BOOLEAN
    /\ openai_api_key = FALSE
    /\ ollama_url = FALSE
    /\ llm_provider = "anthropic"
    /\ probe_endpoints = NumProbeEndpoints
    /\ slack_webhook_url \in BOOLEAN
    /\ alerts \in Tier0Results
    /\ pc = "off"
    /\ round_num = 0
    /\ requests = 0
    /\ messages = << >>
    /\ sink = << >>
    /\ executed = << >>
    /\ terminal = "none"
    /\ response = NoResponse
    /\ prompt_file = "absent"
    /\ system_prompt = << >>
    /\ request = NoRequest
    /\ k_pc = "route"
    /\ k_index = 1
    /\ k_investigations = 0
    /\ s_pc = "tier0"
    /\ shutdown = FALSE
    /\ signal_at = "none"
    /\ elapsed = FALSE
    /\ now = NoTime
    /\ last_digest_date \in {-1} \cup Days
    /\ digest_attempts \in 0..max_digest_attempts
    /\ failsOn = [d \in Days |-> 0]
    /\ okOn = [d \in Days |-> 0]
    /\ last_outcome = "none"
    /\ late_tick = FALSE
    /\ exit_status = -1

\* lines 84 to 92 and 106 to 107: run_tier0 is over (returned, or raised and
\* logged); read the clock and decide about the digest
FrameDigestCheck(t) ==
    /\ s_pc = "tier0"
    /\ k_pc \in {"returned", "raised"}
    /\ now' = t
    /\ IF RunsDigest(t, last_digest_date, digest_attempts, shutdown)
       THEN /\ s_pc' = "digest_run"
            /\ d_pc' = "enter"
            /\ UNCHANGED digest_attempts
       ELSE /\ s_pc' = "wait"
            /\ d_pc' = d_pc
            /\ digest_attempts' = IF DigestDue(t, last_digest_date)
                                  THEN digest_attempts
                                  ELSE 0
    /\ UNCHANGED <<shutdown, signal_at, elapsed, last_digest_date, failsOn,
                   okOn, last_outcome, late_tick, exit_status>>
    /\ UNCHANGED <<d_outcomes, d_lines, d_requests, d_response>>
    /\ UNCHANGED <<agentVars, toolVars, checkVars, configVars, tickVars,
                   llmVars, sinkVars>>

\* lines 94 to 105: run_tier1_digest has returned or raised
FrameDigestEnds ==
    /\ s_pc = "digest_run"
    /\ d_pc \in {"skipped", "returned", "raised"}
    /\ LET after == IF d_pc = "raised"
                    THEN AfterFailure(now, last_digest_date, digest_attempts)
                    ELSE AfterSuccess(now, last_digest_date)
       IN /\ last_digest_date' = after.last
          /\ digest_attempts' = after.attempts
    /\ last_outcome' = IF d_pc = "raised" THEN "failed" ELSE "ok"
    /\ s_pc' = "wait"
    /\ UNCHANGED <<shutdown, signal_at, elapsed, now, failsOn, okOn, late_tick,
                   exit_status>>
    /\ UNCHANGED <<agentVars, toolVars, checkVars, configVars, tickVars,
                   digestVars, llmVars, sinkVars>>

FrameNext ==
    \/ TickNext
    \/ \E t \in Times : FrameDigestCheck(t)
    \/ DigestEnter
    \/ \E outs \in TickFactOutcomes : Collect(outs)
    \/ DigestCompleteRaises
    \/ \E text \in DigestTexts : DigestCompleteReturns(text)
    \/ \E post \in PostOutcomes : DigestNotify(post)
    \/ FrameDigestEnds

FrameSpec == FrameInit /\ [][FrameNext]_vars

\* a step of the digest step of main: its decision or its bookkeeping
SchedulerDigestStep ==
    \/ s_pc = "tier0" /\ s_pc' \in {"digest_run", "wait"}
    \/ s_pc = "digest_run" /\ s_pc' = "wait"

RECURSIVE SumNotified(_)
SumNotified(ex) ==
    IF ex = << >> THEN 0 ELSE Head(ex).notified + SumNotified(Tail(ex))

\* the calls of the sink made by the terminal emissions of the run
TerminalEmissions ==
    IF terminal = "Timed-out" THEN 1
    ELSE IF terminal = "Concluded-by-text" /\ Truthy(response.content) THEN 1
    ELSE 0

\* C29: in an investigation run the sink is called by the dispatch of
\* send_alert and by the terminal Result or Timeout emission only: a
\* dispatch of query_metrics, query_logs, get_cluster_status or of a name
\* that is not known never calls it, and every call of the sink is accounted
\* for by a send_alert dispatch or by the terminal emission.
C29_SinkCalledByAlertOrTerminal ==
    /\ \A i \in DOMAIN executed :
          executed[i].name # "send_alert" => executed[i].notified = 0
    /\ Len(sink) = SumNotified(executed) + TerminalEmissions

C29_Witness ==
    /\ pc = "returned"
    /\ terminal = "Timed-out"
    /\ \E i \in DOMAIN executed : executed[i].name = "restart_pod"
    /\ \E i \in DOMAIN executed : executed[i].name = "query_metrics"
    /\ \E i \in DOMAIN executed : executed[i].name = "get_cluster_status"
    /\ \E i \in DOMAIN executed : executed[i].name = "query_logs"
    /\ Len(sink) = 1

IsToolResultTurn(m) ==
    /\ m.role = "user"
    /\ m.content # << >>
    /\ \A j \in DOMAIN m.content : m.content[j].type = "tool_result"

HistoryAlternates ==
    /\ Len(messages) >= 1
    /\ \A i \in DOMAIN messages :
          messages[i].role = IF i % 2 = 1 THEN "user" ELSE "assistant"
    /\ messages[1] = InitialMessages(alerts)[1]
    /\ messages[Len(messages)].role = "user"
    /\ \A i \in DOMAIN messages :
          messages[i].role = "assistant" =>
             /\ i + 1 \in DOMAIN messages
             /\ IsToolResultTurn(messages[i + 1])

\* C30: the history only grows and alternates roles: at the completion
\* request of round r (counted from 0) it holds exactly 2r + 1 turns, it
\* starts and ends with a turn of the user, every assistant turn is followed
\* by exactly one tool-result turn of the user, and the turns of an earlier
\* moment are an unchanged prefix of the history of any later one.
C30_HistoryAppendOnlyAlternating ==
    /\ [](pc \in {"complete", "else", "returned"} => HistoryAlternates)
    /\ [](pc = "complete" => Len(messages) = 2 * round_num + 1)
    /\ [][/\ Len(messages') >= Len(messages)
          /\ SubSeq(messages', 1, Len(messages)) = messages]_vars

C30_Witness ==
    /\ pc = "complete"
    /\ round_num = 2
    /\ Len(messages) = 5
    /\ messages[2].role = "assistant"
    /\ messages[4].role = "assistant"
    /\ Len(messages[5].content) = 2

\* ---------------------------------------------------------------------------
\* One investigation run from its first line, with a prompt file that may
\* appear or disappear while the run goes on
\* (src/agents/sentinel/investigate.py, lines 133 to 183)
\* ---------------------------------------------------------------------------

RequestInit ==
    /\ ChecksIdle /\ ConfigDefault /\ TickIdle /\ SchedIdle /\ MoreIdle /\ ToolIdle
    /\ alerts \in {<< CpuAlert >>, << StuckPodAlert, CpuAlert >>}
    /\ slack_webhook_url = TRUE
    /\ pc = "start"
    /\ round_num = 0
    /\ requests = 0
    /\ messages = << >>
    /\ sink = << >>
    /\ executed = << >>
    /\ terminal = "none"
    /\ response = NoResponse
    /\ prompt_file \in PromptFiles
    /\ system_prompt = << >>
    /\ request = NoRequest

\* lines 159 to 172: the prompt is loaded and the first turn is built
InvestigationStarts ==
    /\ pc = "start"
    /\ system_prompt' = LoadSystemPrompt(prompt_file)
    /\ messages' = InitialMessages(alerts)
    /\ pc' = "complete"
    /\ UNCHANGED <<alerts, slack_webhook_url, round_num, requests, sink, executed,
                   terminal, response, prompt_file, request>>
    /\ UNCHANGED <<toolVars, restVars>>

\* somebody writes or removes system.md
PromptFileChanges ==
    /\ pc \in {"start", "complete", "else"}
    /\ prompt_file' \in PromptFiles \ {prompt_file}
    /\ UNCHANGED <<alerts, slack_webhook_url, pc, round_num, requests, messages,
                   sink, executed, terminal, response, system_prompt, request>>
    /\ UNCHANGED <<toolVars, restVars>>

RequestNext ==
    \/ InvestigationStarts
    \/ PromptFileChanges
    \/ CompleteRaises
    \/ \E resp \in TextResponses, post \in {"ok", "fail"} : RoundTextOnly(resp, post)
    \/ \E resp \in ToolResponses :
          \E envs \in EnvChoices(resp.tool_calls) : RoundToolCalls(resp, envs)
    \/ \E post \in {"ok", "fail"} : Timeout(post)
    \/ Tier0Catches

RequestSpec == RequestInit /\ [][RequestNext]_vars

\* C31: every completion request of a run carries the whole history as it is
\* then, the four tool descriptors and the system prompt; the prompt and the
\* descriptors are those of the request before, and the prompt is the one
\* loaded at the start of the run: the text of the file if it was there then,
\* else the built-in default.
C31_RequestCarriesHistoryToolsPrompt ==
    /\ [][requests' = requests + 1 =>
            /\ request'.messages = messages
            /\ request'.tools = ToolNames
            /\ Cardinality(request'.tools) = 4
            /\ request'.system = system_prompt
            /\ requests > 0 => /\ request'.system = request.system
                               /\ request'.tools = request.tools]_vars
    /\ [][IF pc = "start" /\ pc' = "complete"
          THEN system_prompt' = IF prompt_file = "present"
                                THEN SystemFileText ELSE DefaultSystemPrompt
          ELSE system_prompt' = system_prompt]_vars

C31_Witness ==
    /\ requests = 3
    /\ round_num = 2
    /\ Len(request.messages) = 5
    /\ request.system = SystemFileText
    /\ prompt_file = "absent"

\* the tool_result blocks placed in the history so far
ToolResultBlocks ==
    UNION { { messages[i].content[j] : j \in DOMAIN messages[i].content } :
            i \in { k \in DOMAIN messages : k > 1 /\ messages[k].role = "user" } }

\* the final notifications of the run
FinalNotifications ==
    { sink[i] : i \in { k \in DOMAIN sink :
        sink[k].title \in {"Investigation Result", "Investigation Timeout"} } }

\* C32: every tool result text placed in the history is at most
\* ToolResultLimit characters long, and every Investigation Result and
\* Investigation Timeout message is at most ResultMessageLimit characters long,
\* whatever the size of the tool output, of the model text or of the alerts.
C32_TruncatedAtEveryBoundary ==
    /\ \A b \in ToolResultBlocks : TextLen(b.content) <= ToolResultLimit
    /\ \A n \in FinalNotifications : TextLen(n.message) <= ResultMessageLimit

\* ---------------------------------------------------------------------------
\* One Tier 0 step from its first line: run_all_checks over all the checks,
\* each seeing its part of the world, then the routing of run_tier0
\* (src/agents/sentinel/checks.py, src/src/runner.py lines 19 to 48)
\* ---------------------------------------------------------------------------

\* the fields of Config
ConfigFields ==
    {"victoria_metrics_url", "loki_url", "dns_server", "slack_webhook_url",
     "anthropic_api_key", "openai_api_key", "ollama_url", "llm_provider",
     "check_interval_seconds", "digest_hour", "traefik_url", "probe_endpoints",
     "dns_checks", "internal_health_checks", "cluster_nodes",
     "expected_node_count"}

\* what the collaborators of one check show: nothing wrong, an anomaly, or a
\* query that fails
Views == {"healthy", "anomaly", "query_fails"}

\* the checks whose collaborator reports its own failure as an unhealthy
\* result instead of raising
ProbeChecks == {"check_endpoints", "check_internal_health", "check_dns_resolution"}

\* one check function seeing view w
CheckResult(fn, w) ==
    LET Raises == [raises |-> TRUE, alerts |-> << >>, world |-> w]
        Returns(found) == [raises |-> FALSE, alerts |-> found, world |-> w]
    IN IF fn = "check_endpoints" /\ probe_endpoints > 0
          /\ "traefik_ip" \notin ConfigFields
       THEN Raises      \* config.traefik_ip: AttributeError at the first endpoint
       ELSE IF w = "healthy" THEN Returns(<< >>)
       ELSE IF w = "query_fails" /\ fn \notin ProbeChecks THEN Raises
       ELSE Returns(<< FoundAlert(fn, 1) >>)

Tier0Init ==
    /\ ToolIdle /\ SchedIdle /\ MoreIdle
    /\ anthropic_api_key \in BOOLEAN
    /\ openai_api_key = FALSE
    /\ ollama_url = FALSE
    /\ llm_provider = "anthropic"
    /\ probe_endpoints \in {0, NumProbeEndpoints}
    /\ slack_webhook_url \in BOOLEAN
    /\ alerts = << >>
    /\ pc = "off"
    /\ round_num = 0
    /\ requests = 0
    /\ messages = << >>
    /\ sink = << >>
    /\ executed = << >>
    /\ terminal = "none"
    /\ response = NoResponse
    /\ prompt_file = "absent"
    /\ system_prompt = << >>
    /\ request = NoRequest
    /\ c_pc = "loop"
    /\ c_index = 1
    /\ all_alerts = << >>
    /\ c_outcomes = << >>
    /\ k_pc = "checks"
    /\ k_index = 1
    /\ k_investigations = 0

\* one iteration of `for check_fn in ALL_CHECKS`; at most one check of the
\* tick sees something else than a healthy world
Tier0RunsCheck(w) ==
    /\ k_pc = "checks"
    /\ c_pc = "loop"
    /\ c_index <= Len(ALL_CHECKS)
    /\ w # "healthy" => \A i \in DOMAIN c_outcomes : c_outcomes[i].world = "healthy"
    /\ LET out == CheckResult(ALL_CHECKS[c_index], w)
       IN /\ all_alerts' = CheckStep(all_alerts, ALL_CHECKS[c_index], out)
          /\ c_outcomes' = Append(c_outcomes, out)
    /\ c_index' = c_index + 1
    /\ UNCHANGED c_pc
    /\ UNCHANGED <<agentVars, toolVars, configVars, tickVars, schedVars, moreVars>>

\* `alerts = await run_all_checks(config)` returns
Tier0Aggregated ==
    /\ k_pc = "checks"
    /\ c_pc = "loop"
    /\ c_index > Len(ALL_CHECKS)
    /\ c_pc' = "returned"
    /\ alerts' = all_alerts
    /\ k_pc' = "route"
    /\ UNCHANGED <<c_index, all_alerts, c_outcomes, k_index, k_investigations>>
    /\ UNCHANGED <<slack_webhook_url, pc, round_num, requests, messages, sink,
                   executed, terminal, response, prompt_file, system_prompt,
                   request>>
    /\ UNCHANGED <<toolVars, configVars, schedVars, moreVars>>

Tier0Next ==
    \/ \E w \in Views : Tier0RunsCheck(w)
    \/ Tier0Aggregated
    \/ TickNext

Tier0Spec == Tier0Init /\ [][Tier0Next]_vars

\* every check of the tick saw a healthy world
AllHealthy ==
    /\ Len(c_outcomes) = Len(ALL_CHECKS)
    /\ \A i \in DOMAIN c_outcomes : c_outcomes[i].world = "healthy"

\* C33: in a tick in which every collaborator query succeeds and nothing is
\* wrong, run_all_checks returns the empty list, and the tick starts no
\* investigation and sends no notification.
C33_HealthyTickIsSilent ==
    (AllHealthy /\ k_pc \notin {"checks"}) =>
        /\ all_alerts = << >>
        /\ alerts = << >>
        /\ k_investigations = 0
        /\ sink = << >>

\* ---------------------------------------------------------------------------
\* The loop of main with the outcome of each Tier 0 step kept
\* (src/src/runner.py, lines 83 to 113)
\* ---------------------------------------------------------------------------

Tier0Outcomes == {"returned", "raised"}

\* no except clause around run_tier0: the exception leaves main
AfterTier0_Propagates(out) == IF out = "raised" THEN "exited" ELSE "digest_check"

\* lines 84 to 87: `except Exception` logs and falls through to the digest
\* step, as a return does
AfterTier0(out) == "digest_check"

LoopInit ==
    /\ AgentIdle /\ ToolIdle /\ ChecksIdle /\ MoreIdle
    /\ slack_webhook_url = TRUE
    /\ anthropic_api_key = TRUE
    /\ openai_api_key = FALSE
    /\ ollama_url = FALSE
    /\ llm_provider = "anthropic"
    /\ probe_endpoints = NumProbeEndpoints
    /\ k_pc = "off"
    /\ k_index = 1
    /\ k_investigations = 0
    /\ s_pc = "top"
    /\ shutdown = FALSE
    /\ signal_at = "none"
    /\ elapsed = FALSE
    /\ now = NoTime
    /\ last_digest_date = -1
    /\ digest_attempts = 0
    /\ failsOn = [d \in Days |-> 0]
    /\ okOn = [d \in Days |-> 0]
    /\ last_outcome = "none"
    /\ late_tick = FALSE
    /\ exit_status = -1

\* `await run_tier0(config)` is over: it returned, or it raised (from the
\* routing or from the investigation)
Tier0Outcome(out) ==
    /\ s_pc = "tier0"
    /\ k_pc' = out
    /\ s_pc' = AfterTier0(out)
    /\ UNCHANGED <<k_index, k_investigations>>
    /\ UNCHANGED <<shutdown, signal_at, elapsed, now, last_digest_date,
                   digest_attempts, failsOn, okOn, last_outcome, late_tick,
                   exit_status>>
    /\ UNCHANGED <<agentVars, toolVars, checkVars, configVars, moreVars>>

LoopStep ==
    \/ TickStarts
    \/ LoopExits
    \/ \E out \in Tier0Outcomes : Tier0Outcome(out)
    \/ \E t \in Times : DigestCheck(t)
    \/ \E outcome \in DigestOutcomes(anthropic_api_key) : DigestEnds(outcome)
    \/ WaitReturns
    \/ MainReturns

LoopNext ==
    \/ Signal
    \/ IntervalElapses
    \/ LoopStep

LoopSpec == LoopInit /\ [][LoopNext]_vars

\* The steps of main go on and the interval of a wait runs out.  Nothing is
\* assumed about signals.
FairLoopSpec == LoopSpec /\ WF_vars(LoopStep) /\ WF_vars(IntervalElapses)

\* C34: an exception that leaves the Tier 0 step is caught by main: the tick
\* goes on with its digest step, the process ends only after a shutdown
\* signal, and unless shutdown is signalled a later tick runs Tier 0 again
\* once the interval has run out.
C34_Tier0FailureDoesNotStopTheLoop ==
    /\ [][(s_pc = "tier0" /\ s_pc' # s_pc /\ k_pc' = "raised") =>
             (s_pc' = "digest_check" /\ exit_status' = -1)]_vars
    /\ [](s_pc \in {"stopped", "exited"} => shutdown)
    /\ (k_pc = "raised" /\ s_pc = "digest_check") ~> (s_pc = "tier0" \/ shutdown)

C34_Witness ==
    /\ k_pc = "raised"
    /\ s_pc = "tier0"
    /\ ~shutdown
    /\ now # NoTime

\* the digest of this tick was handed to the sink and the sink returned False
DigestUndelivered ==
    \E i \in DOMAIN sink :
        /\ sink[i].title = "Daily Health Digest"
        /\ sink[i].status \in {"failed", "dropped"}

\* C35: a digest run whose completion request succeeded but whose
\* notification was not delivered counts as a success for the scheduler: the
\* date is marked done, the failure counter is 0 and no digest is run again
\* on that date.
C35_UndeliveredDigestIsSuccess ==
    (s_pc = "wait" /\ DigestUndelivered) =>
        /\ d_pc = "returned"
        /\ Len(d_requests) = 1
        /\ last_outcome = "ok"
        /\ last_digest_date = now.day
        /\ digest_attempts = 0
        /\ \A t \in Times :
              t.day = now.day =>
                  ~RunsDigest(t, last_digest_date, digest_attempts, FALSE)

C35_Witness ==
    /\ s_pc = "wait"
    /\ d_pc = "returned"
    /\ slack_webhook_url
    /\ \E i \in DOMAIN sink :
          sink[i].title = "Daily Health Digest" /\ sink[i].status = "failed"
    /\ last_digest_date = now.day
    /\ digest_attempts = 0

\* a round of the run dispatched send_alert
DispatchedSendAlert ==
    \E i \in DOMAIN executed : executed[i].name = "send_alert"

\* C36: the terminal outcomes of a run exclude each other: a run emits at
\* most one Investigation Result and at most one Investigation Timeout, never
\* both, and neither of them when a round of the run dispatched send_alert.
C36_TerminalOutcomesExclusive ==
    /\ Cardinality(ResultCalls) <= 1
    /\ Cardinality(TimeoutCalls) <= 1
    /\ ~(ResultCalls # {} /\ TimeoutCalls # {})
    /\ DispatchedSendAlert => (ResultCalls = {} /\ TimeoutCalls = {})
    /\ terminal = "Concluded-by-alert" => DispatchedSendAlert
    /\ TimeoutCalls # {} <=> terminal = "Timed-out"
    /\ ResultCalls # {} => terminal = "Concluded-by-text"

C36_Witness ==
    /\ pc = "returned"
    /\ terminal = "Concluded-by-alert"
    /\ round_num = MAX_TOOL_ROUNDS - 1
    /\ Len(sink) = 1
    /\ sink[1].title = "Root cause found"

\* C37: the digest failure counter is always between 0 and
\* max_digest_attempts, and the digest step of every tick that is outside the
\* digest hour, or whose date is already marked done, sets it to 0.
C37_CounterBoundedAndReset ==
    /\ [](digest_attempts \in 0..max_digest_attempts)
    /\ [][(DigestStep /\ ~DigestDue(now', last_digest_date))
            => (digest_attempts' = 0 /\ s_pc' = "wait")]_vars

C37_Witness ==
    /\ s_pc = "wait"
    /\ now # NoTime
    /\ now.hour = digest_hour
    /\ last_digest_date = now.day
    /\ failsOn[now.day] = max_digest_attempts
    /\ last_outcome = "none"
    /\ digest_attempts = 0

====
